---- MODULE Spec2Model ----
(***************************************************************************)
(* Model of mcp-atlassian: the two content normalizers (ConfluenceFetcher, *)
(* JiraFetcher), the resource resolver (read_resource) and the tool        *)
(* dispatcher (call_tool) of server.py.                                    *)
(*                                                                         *)
(* A handler invocation is one action.  Every operator that models Python  *)
(* code returns a record                                                    *)
(*     [calls, kind, val, exc]                                              *)
(* calls : the backend (REST client) calls issued so far, in order          *)
(* kind  : "return" or "raise"                                              *)
(* val   : the returned value (None when raising)                           *)
(* exc   : the raised exception [type, msg] (None when returning)           *)
(***************************************************************************)
EXTENDS Integers, Sequences, FiniteSets, TLC

VARIABLES
    services,   \* server.py:38  availability flags {"confluence", "jira"}
    confluence_fetcher, \* server.py:39  the ConfluenceFetcher handle, or None
    jira_fetcher,       \* server.py:40  the JiraFetcher handle, or None
    pc,         \* "idle": no request in progress; "done": a handler has answered
    req,        \* the invocation handled last (operation and its inputs)
    env,        \* what the backends answer during that invocation
    res         \* its outcome: [calls, kind, val, exc]

vars == <<services, confluence_fetcher, jira_fetcher, pc, req, env, res>>

\* the module-level state of server.py, assigned once when the module loads
startup == <<services, confluence_fetcher, jira_fetcher>>

(***************************************************************************)
(* Bounds of the model.                                                    *)
(***************************************************************************)
MaxFailAt == 3      \* the backend call (1st, 2nd, ..) that raises; 0 = none does
MaxHits == 2        \* length of a raw hit list returned by a query
MaxParts == 3       \* chunks the markdown splitter cuts a page into
MaxSegs == 4        \* path segments of a resource URI
MaxLinks == 3       \* issue links of one issue

(***************************************************************************)
(* Python values.                                                          *)
(***************************************************************************)
None == [type |-> "NoneType"]

Return(c, v) == [calls |-> c, kind |-> "return", val |-> v, exc |-> None]

Raise(c, t, m) ==
    [calls |-> c, kind |-> "raise", val |-> None, exc |-> [type |-> t, msg |-> m]]

\* an exception raised while handling another one (its __context__)
RaiseFrom(c, t, m, cause) ==
    [calls |-> c, kind |-> "raise", val |-> None,
     exc |-> [type |-> t, msg |-> m, context |-> cause]]

\* r's exception propagates; otherwise the code goes on with K(r)
Then(r, K(_)) == IF r.kind = "raise" THEN r ELSE K(r)

Min(a, b) == IF a <= b THEN a ELSE b

Max(a, b) == IF a >= b THEN a ELSE b

\* seq[a:b] with Python's rules for negative and out-of-range indices
PySlice(seq, a, b) ==
    LET n == Len(seq)
        norm(i) == IF i < 0 THEN Max(i + n, 0) ELSE Min(i, n)
        lo == norm(a)
        hi == norm(b)
    IN  IF hi <= lo THEN <<>> ELSE SubSeq(seq, lo + 1, hi)

\* dict.get(key, default)
DictGet(d, k, default) == IF k \in DOMAIN d THEN d[k] ELSE default

\* str(KeyError(key))
KeyErrorMsg(k) == "'" \o k \o "'"

\* str(AttributeError) of an attribute read on None / on an object of class cls
NoneAttrMsg(a) == "'NoneType' object has no attribute '" \o a \o "'"

AttrMsg(cls, a) == "'" \o cls \o "' object has no attribute '" \o a \o "'"

Document(content, metadata) ==
    [type |-> "Document", page_content |-> content, metadata |-> metadata]

(***************************************************************************)
(* The backends (atlassian.Confluence / atlassian.Jira REST clients).      *)
(* Their content is fixed; env says which call of an invocation fails and  *)
(* what the queries answer.                                                *)
(***************************************************************************)
ConfluenceUrl == "https://wiki"

JiraUrlChars == <<"h", "t", "t", "p", "s", ":", "/", "/", "j", "i", "r", "a", "/">>

\* ConfluenceFetcher(): the handle with the configuration read from the
\* environment (confluence.py:30-44)
ConfluenceFetcher ==
    [config |-> [url |-> ConfluenceUrl, api_token |-> "confluence-token"]]

\* JiraFetcher(): the handle with the configuration read from the environment
\* (jira.py:24-38)
JiraFetcher ==
    [config |-> [url |-> JiraUrlChars, api_token |-> "jira-token"]]

\* the handles the module creates for the available services (server.py:39-40)
HandlesCreated ==
    /\ confluence_fetcher = IF services.confluence THEN ConfluenceFetcher ELSE None
    /\ jira_fetcher = IF services.jira THEN JiraFetcher ELSE None

Pages ==
    { [id |-> "101", title |-> "Onboarding", space |-> "ENG",
       body |-> "<p>hi</p>", version |-> 7],
      [id |-> "102", title |-> "Runbook", space |-> "ENG",
       body |-> "<p>run</p>", version |-> 2] }

PageOrder == <<"101", "102">>

PageById(id) == CHOOSE p \in Pages : p.id = id

\* One call on a REST client: logged, then it raises if it is the failing
\* call of this invocation or if the backend has no answer (r.ok = FALSE).
BackendCall(c, e, client, method, args, r) ==
    LET K(c2) == IF Len(c2) = e.failAt
                 THEN Raise(c2, "HTTPError", "backend unavailable")
                 ELSE IF r.ok THEN Return(c2, r.val)
                      ELSE Raise(c2, "HTTPError", r.msg)
    IN  K(Append(c, [client |-> client, method |-> method, args |-> args]))

Ok(v) == [ok |-> TRUE, val |-> v, msg |-> ""]

NotOk(m) == [ok |-> FALSE, val |-> None, msg |-> m]

\* Confluence.get_page_by_id: the page, or an HTTP 404 error
confluence_get_page_by_id(c, e, page_id) ==
    BackendCall(c, e, "confluence", "get_page_by_id", [page_id |-> page_id],
        IF \E p \in Pages : p.id = page_id
        THEN Ok(PageById(page_id)) ELSE NotOk("404 page"))

\* Confluence.get_page_by_title: the page, or None when nothing matches
confluence_get_page_by_title(c, e, space, title) ==
    BackendCall(c, e, "confluence", "get_page_by_title",
        [space |-> space, title |-> title],
        IF \E p \in Pages : p.space = space /\ p.title = title
        THEN Ok(CHOOSE p \in Pages : p.space = space /\ p.title = title)
        ELSE Ok(None))

\* the ids of the pages of a space, in backend order
RECURSIVE SpaceIds(_, _)
SpaceIds(order, space) ==
    IF order = <<>> THEN <<>>
    ELSE (IF PageById(Head(order)).space = space THEN <<Head(order)>> ELSE <<>>)
            \o SpaceIds(Tail(order), space)

\* Confluence.get_all_pages_from_space: the window [start, start+limit)
confluence_get_all_pages_from_space(c, e, space, start, limit) ==
    LET K(ids) ==
            LET W(win) == Ok([i \in 1..Len(win) |-> PageById(win[i])])
            IN  W(SubSeq(ids, Min(start, Len(ids)) + 1, Min(start + limit, Len(ids))))
    IN  BackendCall(c, e, "confluence", "get_all_pages_from_space",
            [space |-> space, start |-> start, limit |-> limit],
            IF start < 0 \/ limit < 0 THEN NotOk("400 bad request")
            ELSE K(SpaceIds(PageOrder, space)))

\* Confluence.get_page_comments: {"results": [...]} of a page's comments
PageComments(page_id) ==
    IF page_id = "101"
    THEN << [id |-> "c1", body |-> "<p>nice</p>", by |-> "Ann", when |-> "2024-01-05"] >>
    ELSE << >>

confluence_get_page_comments(c, e, page_id) ==
    BackendCall(c, e, "confluence", "get_page_comments", [content_id |-> page_id],
        Ok([results |-> PageComments(page_id)]))

\* a JSON string of a backend payload (a JSON null is None)
JStr(s) == [type |-> "str", s |-> s]

\* a JSON object and a JSON array of a backend response
JDict(v) == [type |-> "dict", v |-> v]

JList(v) == [type |-> "list", v |-> v]

\* raw search hits: one per entry h of env.hits, of content type h.ctype and
\* with an excerpt that is a text, a JSON null, or not in the payload
Hit(i, h) ==
    LET K(base) ==
            IF h.excerpt = "absent" THEN base
            ELSE [k \in DOMAIN base \cup {"excerpt"} |->
                    IF k # "excerpt" THEN base[k]
                    ELSE IF h.excerpt = "null" THEN None
                    ELSE JStr("excerpt " \o ToString(i))]
    IN  K([content |-> [type |-> h.ctype, id |-> "h" \o ToString(i)],
           title |-> "Hit " \o ToString(i),
           url |-> "/display/h" \o ToString(i),
           lastModified |-> "2024-01-05"])

\* Confluence.cql: {"results": [...]}
confluence_cql(c, e, cql, limit) ==
    BackendCall(c, e, "confluence", "cql", [cql |-> cql, limit |-> limit],
        Ok([results |-> [i \in 1..Len(e.hits) |-> Hit(i, e.hits[i])]]))

(***************************************************************************)
(* TextPreprocessor (module preprocessing) and the markdown splitter       *)
(* (langchain_text_splitters): external collaborators.                     *)
(***************************************************************************)
process_html_content(html, space_key) ==
    [html |-> "html:" \o html, markdown |-> "md:" \o html]

clean_jira_text(text) == "txt:" \o text

\* split_md_document: env.nparts chunks, each a Document without metadata
split_md_document(markdown_document, e) ==
    [i \in 1..e.nparts |->
        Document(markdown_document \o "#" \o ToString(i), [source |-> "chunk"])]

(***************************************************************************)
(* confluence.py: ConfluenceFetcher                                        *)
(***************************************************************************)
\* the attributes an instance of ConfluenceFetcher has (its __init__ and methods)
ConfluenceFetcherAttrs ==
    { "config", "confluence", "preprocessor", "_process_html_content",
      "get_spaces", "get_page_content", "split_page", "get_page_by_title",
      "get_space_pages", "get_page_comments", "search" }

\* self._clean_html_content(content), as called at confluence.py:98 and :126
_clean_html_content(c, content) ==
    IF "_clean_html_content" \in ConfluenceFetcherAttrs
    THEN Return(c, "md:" \o content)
    ELSE Raise(c, "AttributeError",
               AttrMsg("ConfluenceFetcher", "_clean_html_content"))

get_page_content(c, e, page_id, clean_html) ==
    LET K(r) ==
            LET P(page, p) ==
                    Return(r.calls,
                        Document(IF clean_html THEN p.markdown ELSE p.html,
                            [page_id |-> page_id,
                             title |-> page.title,
                             version |-> page.version,
                             url |-> ConfluenceUrl \o "/wiki/spaces/" \o page.space
                                         \o "/pages/" \o page_id,
                             space_key |-> page.space,
                             author_name |-> "Ann",
                             space_name |-> "Engineering",
                             last_modified |-> "2024-01-05"]))
            IN  P(r.val, process_html_content(r.val.body, r.val.space))
    IN  Then(confluence_get_page_by_id(c, e, page_id), K)

split_page(c, e, page_id, clean_html) ==
    LET K(r) == Return(r.calls, split_md_document(r.val.page_content, e))
    IN  Then(get_page_content(c, e, page_id, clean_html), K)

\* the body of get_page_by_title's try block (confluence.py:90-108)
get_page_by_title_try(c, e, space_key, title, clean_html) ==
    LET K(r) ==
            IF r.val = None THEN Return(r.calls, None)
            ELSE LET D(cl) ==
                        Return(cl.calls,
                            Document(cl.val,
                                [page_id |-> r.val.id,
                                 title |-> r.val.title,
                                 version |-> r.val.version,
                                 space_key |-> space_key,
                                 url |-> ConfluenceUrl \o "/wiki/spaces/" \o space_key
                                             \o "/pages/" \o r.val.id]))
                 IN  Then(IF clean_html THEN _clean_html_content(r.calls, r.val.body)
                          ELSE Return(r.calls, r.val.body), D)
    IN  Then(confluence_get_page_by_title(c, e, space_key, title), K)

\* mutant: no except clause, the exception propagates
get_page_by_title_propagates(c, e, space_key, title, clean_html) ==
    get_page_by_title_try(c, e, space_key, title, clean_html)

\* try: ... except Exception: log; return None
get_page_by_title(c, e, space_key, title, clean_html) ==
    LET K(r) == IF r.kind = "raise" THEN Return(r.calls, None) ELSE r
    IN  K(get_page_by_title_try(c, e, space_key, title, clean_html))

\* the loop of get_space_pages over pages[i..]: stops at the first exception
RECURSIVE SpacePageDocs(_, _, _, _, _)
SpacePageDocs(c, pages, i, space_key, clean_html) ==
    IF i > Len(pages) THEN Return(c, <<>>)
    ELSE LET D(cl) ==
                LET R(rest) ==
                        Return(c,
                            <<Document(cl.val,
                                [page_id |-> pages[i].id,
                                 title |-> pages[i].title,
                                 space_key |-> space_key,
                                 version |-> pages[i].version,
                                 url |-> ConfluenceUrl \o "/wiki/spaces/" \o space_key
                                             \o "/pages/" \o pages[i].id])>> \o rest.val)
                IN  Then(SpacePageDocs(c, pages, i + 1, space_key, clean_html), R)
         IN  Then(IF clean_html THEN _clean_html_content(c, pages[i].body)
                  ELSE Return(c, pages[i].body), D)

get_space_pages(c, e, space_key, start, limit, clean_html) ==
    LET K(r) == SpacePageDocs(r.calls, r.val, 1, space_key, clean_html)
    IN  Then(confluence_get_all_pages_from_space(c, e, space_key, start, limit), K)

get_page_comments(c, e, page_id, clean_html) ==
    LET K(r) ==
            LET C(r2) ==
                    Return(r2.calls,
                        [i \in 1..Len(r2.val.results) |->
                            LET P(cm, p) ==
                                    Document(IF clean_html THEN p.markdown ELSE p.html,
                                        [page_id |-> page_id,
                                         comment_id |-> cm.id,
                                         last_modified |-> cm.when,
                                         type |-> "comment",
                                         author_name |-> cm.by,
                                         space_key |-> r.val.space,
                                         space_name |-> "Engineering"])
                            IN  P(r2.val.results[i],
                                  process_html_content(r2.val.results[i].body, r.val.space))])
            IN  Then(confluence_get_page_comments(r.calls, e, page_id), C)
    IN  Then(confluence_get_page_by_id(c, e, page_id), K)

\* mutant: every hit is kept, whatever its content type
RECURSIVE SearchDocs_unfiltered(_)
SearchDocs_unfiltered(results) ==
    IF results = <<>> THEN <<>>
    ELSE LET D(result) ==
                <<Document(DictGet(result, "excerpt", JStr("")),
                    [page_id |-> result.content.id,
                     title |-> result.title,
                     space |-> "Engineering",
                     url |-> ConfluenceUrl \o result.url,
                     last_modified |-> result.lastModified,
                     type |-> result.content.type])>>
         IN  D(Head(results)) \o SearchDocs_unfiltered(Tail(results))

\* the hits of type "page", in order, as Documents (confluence.py:180-193)
RECURSIVE SearchDocs(_)
SearchDocs(results) ==
    IF results = <<>> THEN <<>>
    ELSE LET D(result) ==
                IF result.content.type = "page"
                THEN <<Document(DictGet(result, "excerpt", JStr("")),
                            [page_id |-> result.content.id,
                             title |-> result.title,
                             space |-> "Engineering",
                             url |-> ConfluenceUrl \o result.url,
                             last_modified |-> result.lastModified,
                             type |-> result.content.type])>>
                ELSE <<>>
         IN  D(Head(results)) \o SearchDocs(Tail(results))

\* mutant: the except clause logs and re-raises, as search_issues does
search_reraises(c, e, cql, limit) ==
    LET K(r) == Return(r.calls, SearchDocs(r.val.results))
    IN  Then(confluence_cql(c, e, cql, limit), K)

\* try: ... except Exception: log; return []
search(c, e, cql, limit) ==
    LET K(r) == IF r.kind = "raise" THEN Return(r.calls, <<>>)
                ELSE Return(r.calls, SearchDocs(r.val.results))
    IN  K(confluence_cql(c, e, cql, limit))

(***************************************************************************)
(* Text as Python sees it in _parse_date: a sequence of characters.        *)
(***************************************************************************)
DigitChars == <<"0", "1", "2", "3", "4", "5", "6", "7", "8", "9">>

IsDigit(ch) == \E i \in 1..10 : DigitChars[i] = ch

DigitVal(ch) == (CHOOSE i \in 1..10 : DigitChars[i] = ch) - 1

\* str.isdigit(): non-empty and all digits
IsDigits(s) == Len(s) > 0 /\ \A i \in 1..Len(s) : IsDigit(s[i])

RECURSIVE NumVal(_)
NumVal(s) == IF s = <<>> THEN 0
             ELSE 10 * NumVal(SubSeq(s, 1, Len(s) - 1)) + DigitVal(s[Len(s)])

Pad2(n) == <<DigitChars[((n \div 10) % 10) + 1], DigitChars[(n % 10) + 1]>>

Pad4(n) == Pad2(n \div 100) \o Pad2(n % 100)

\* the characters joined into one string
RECURSIVE Str(_)
Str(s) == IF s = <<>> THEN "" ELSE Head(s) \o Str(Tail(s))

StartsWith(s, sub) == Len(s) >= Len(sub) /\ SubSeq(s, 1, Len(sub)) = sub

\* sub in s
Contains(s, sub) ==
    \E i \in 1..(Len(s) - Len(sub) + 1) : SubSeq(s, i, i + Len(sub) - 1) = sub

\* s.replace(old, new): every non-overlapping occurrence, left to right
RECURSIVE Replace(_, _, _)
Replace(s, old, new) ==
    IF s = <<>> THEN <<>>
    ELSE IF StartsWith(s, old)
         THEN new \o Replace(SubSeq(s, Len(old) + 1, Len(s)), old, new)
         ELSE <<Head(s)>> \o Replace(Tail(s), old, new)

IsLeap(y) == (y % 4 = 0 /\ y % 100 # 0) \/ y % 400 = 0

DaysInMonth(y, m) ==
    IF m = 2 THEN (IF IsLeap(y) THEN 29 ELSE 28)
    ELSE IF m \in {4, 6, 9, 11} THEN 30 ELSE 31

\* "+HH:MM" or "-HH:MM"
IsIsoOffset(z) ==
    /\ Len(z) = 6
    /\ z[1] \in {"+", "-"}
    /\ IsDigits(SubSeq(z, 2, 3))
    /\ z[4] = ":"
    /\ IsDigits(SubSeq(z, 5, 6))
    /\ NumVal(SubSeq(z, 2, 3)) <= 23
    /\ NumVal(SubSeq(z, 5, 6)) <= 59

\* "HH:MM:SS", optionally ".fff", optionally an offset
IsIsoTime(t) ==
    /\ Len(t) >= 8
    /\ IsDigits(SubSeq(t, 1, 2)) /\ t[3] = ":"
    /\ IsDigits(SubSeq(t, 4, 5)) /\ t[6] = ":"
    /\ IsDigits(SubSeq(t, 7, 8))
    /\ NumVal(SubSeq(t, 1, 2)) <= 23
    /\ NumVal(SubSeq(t, 4, 5)) <= 59
    /\ NumVal(SubSeq(t, 7, 8)) <= 59
    /\ LET r == SubSeq(t, 9, Len(t))
           z == IF Len(r) >= 4 /\ r[1] = "." /\ IsDigits(SubSeq(r, 2, 4))
                THEN SubSeq(r, 5, Len(r)) ELSE r
       IN  z = <<>> \/ IsIsoOffset(z)

\* datetime.fromisoformat accepts s: "YYYY-MM-DD", optionally a separator
\* character and a time (the grammar of Python 3.7 to 3.10; later versions
\* accept more, and agree on these)
IsIsoFormat(s) ==
    /\ Len(s) >= 10
    /\ IsDigits(SubSeq(s, 1, 4)) /\ s[5] = "-"
    /\ IsDigits(SubSeq(s, 6, 7)) /\ s[8] = "-"
    /\ IsDigits(SubSeq(s, 9, 10))
    /\ NumVal(SubSeq(s, 1, 4)) >= 1
    /\ NumVal(SubSeq(s, 6, 7)) \in 1..12
    /\ NumVal(SubSeq(s, 9, 10)) >= 1
    /\ NumVal(SubSeq(s, 9, 10))
          <= DaysInMonth(NumVal(SubSeq(s, 1, 4)), NumVal(SubSeq(s, 6, 7)))
    /\ (Len(s) = 10 \/ (Len(s) >= 12 /\ IsIsoTime(SubSeq(s, 12, Len(s)))))

\* datetime.fromisoformat(s).strftime("%Y-%m-%d"): the date fields as parsed
\* (the datetime keeps its own offset; nothing converts it to UTC)
IsoDate(s) ==
    Pad4(NumVal(SubSeq(s, 1, 4))) \o <<"-">> \o Pad2(NumVal(SubSeq(s, 6, 7)))
        \o <<"-">> \o Pad2(NumVal(SubSeq(s, 9, 10)))

(***************************************************************************)
(* jira.py: JiraFetcher                                                    *)
(***************************************************************************)
\* mutant: only the +0000 and -0000 spellings are rewritten
NormalizeOffset_utc_only(date_str) ==
    IF Contains(date_str, <<"+", "0", "0", "0", "0">>)
    THEN Replace(date_str, <<"+", "0", "0", "0", "0">>, <<"+", "0", "0", ":", "0", "0">>)
    ELSE IF Contains(date_str, <<"-", "0", "0", "0", "0">>)
    THEN Replace(date_str, <<"-", "0", "0", "0", "0">>, <<"+", "0", "0", ":", "0", "0">>)
    ELSE date_str

\* the timezone rewrite of _parse_date (jira.py:57-64)
NormalizeOffset(date_str) ==
    IF Contains(date_str, <<"+", "0", "0", "0", "0">>)
    THEN Replace(date_str, <<"+", "0", "0", "0", "0">>, <<"+", "0", "0", ":", "0", "0">>)
    ELSE IF Contains(date_str, <<"-", "0", "0", "0", "0">>)
    THEN Replace(date_str, <<"-", "0", "0", "0", "0">>, <<"+", "0", "0", ":", "0", "0">>)
    ELSE IF /\ Len(date_str) >= 5
            /\ date_str[Len(date_str) - 4] \in {"+", "-"}
            /\ IsDigits(SubSeq(date_str, Len(date_str) - 3, Len(date_str)))
    THEN SubSeq(date_str, 1, Len(date_str) - 2) \o <<":">>
            \o SubSeq(date_str, Len(date_str) - 1, Len(date_str))
    ELSE date_str

_parse_date(date_str) ==
    IF date_str = <<>> THEN <<>>
    ELSE LET K(n) ==
                LET P(iso) == IF IsIsoFormat(iso) THEN IsoDate(iso) ELSE n
                IN  P(Replace(n, <<"Z">>, <<"+", "0", "0", ":", "0", "0">>))
         IN  K(NormalizeOffset(date_str))

\* _clean_text: "" for a missing, null or empty text
_clean_text(text) ==
    IF text = None THEN ""
    ELSE IF text.s = "" THEN "" ELSE clean_jira_text(text.s)

\* "created" timestamps of the tracker's payloads
CREATED12 == <<"2", "0", "2", "4", "-", "0", "1", "-", "0", "5", "T", "1", "0", ":", "0", "0", ":", "0", "0", ".", "0", "0", "0", "+", "0", "9", "0", "0">>

COMMENT12 == <<"2", "0", "2", "4", "-", "0", "1", "-", "0", "6", "T", "0", "8", ":", "1", "5", ":", "0", "0", ".", "0", "0", "0", "+", "0", "0", "0", "0">>

CREATED13 == <<"2", "0", "2", "4", "-", "0", "2", "-", "2", "9", "T", "2", "3", ":", "5", "9", ":", "5", "9", ".", "0", "0", "0", "Z">>

CREATED14 == <<"2", "0", "2", "3", "-", "1", "2", "-", "3", "1", "T", "0", "1", ":", "0", "0", ":", "0", "0", ".", "0", "0", "0", "-", "0", "5", "0", "0">>

\* self.config.url.rstrip('/')
RECURSIVE RStrip(_, _)
RStrip(s, ch) ==
    IF s # <<>> /\ s[Len(s)] = ch THEN RStrip(SubSeq(s, 1, Len(s) - 1), ch) ELSE s

JiraUrlStripped == Str(RStrip(JiraUrlChars, "/"))

\* ENG-20 carries the issue links env names (env.links), none otherwise
LinkedIssueKey == "ENG-20"

LinkedIssue(links) ==
    [key |-> LinkedIssueKey,
     fields |->
        [summary |-> "Linked",
         issuetype |-> [name |-> "Story"],
         status |-> [name |-> "Open"],
         created |-> CREATED14,
         priority |-> [name |-> "Low"],
         issuelinks |-> links]]

\* the issues of the tracker: ENG-12 carries everything, ENG-13 a null
\* description and priority, ENG-14 neither priority nor links nor comments
Issues ==
    [k \in {"ENG-12", "ENG-13", "ENG-14", LinkedIssueKey} |->
        IF k = LinkedIssueKey THEN LinkedIssue(<< >>)
        ELSE IF k = "ENG-12" THEN
            [key |-> k,
             fields |->
                [summary |-> "Fix login",
                 description |-> JStr("h1. Steps"),
                 issuetype |-> [name |-> "Bug"],
                 status |-> [name |-> "Open"],
                 created |-> CREATED12,
                 priority |-> [name |-> "High"],
                 issuelinks |->
                    << [type |-> [inward |-> "is blocked by"], inwardIssue |-> [key |-> "ENG-13"]],
                       [type |-> [inward |-> "relates to"], inwardIssue |-> [key |-> "ENG-14"]],
                       [type |-> [inward |-> "is blocked by"], inwardIssue |-> [key |-> "ENG-15"]] >>,
                 comment |->
                    [comments |->
                        << [body |-> JStr("looks good"), created |-> COMMENT12,
                            author |-> [displayName |-> "Ann"]] >>]]]
        ELSE IF k = "ENG-13" THEN
            [key |-> k,
             fields |->
                [summary |-> "Null fields",
                 description |-> None,
                 issuetype |-> [name |-> "Task"],
                 status |-> [name |-> "Done"],
                 created |-> CREATED13,
                 priority |-> None,
                 issuelinks |-> << >>,
                 comment |-> [comments |-> << >>]]]
        ELSE
            [key |-> k,
             fields |->
                [summary |-> "Bare",
                 issuetype |-> [name |-> "Task"],
                 status |-> [name |-> "Open"],
                 created |-> CREATED14]]]

\* Jira.issue: the issue, or an HTTP 404 error
jira_issue(c, e, issue_key, expand) ==
    BackendCall(c, e, "jira", "issue", [key |-> issue_key, expand |-> expand],
        IF issue_key = LinkedIssueKey /\ "links" \in DOMAIN e
        THEN Ok(LinkedIssue(e.links))
        ELSE IF issue_key \in DOMAIN Issues
        THEN Ok(Issues[issue_key]) ELSE NotOk("404 Issue Does Not Exist"))

\* Jira.jql: {"issues": [...]}, the hits named by env.hits
jira_jql(c, e, jql, fields, start, limit, expand) ==
    BackendCall(c, e, "jira", "jql",
        [jql |-> jql, fields |-> fields, start |-> start, limit |-> limit,
         expand |-> expand],
        Ok([issues |-> [i \in 1..Len(e.hits) |-> [key |-> e.hits[i]]]]))

jira_create_issue(c, e, fields) ==
    BackendCall(c, e, "jira", "create_issue", [fields |-> fields],
        Ok(JDict([id |-> "10001", key |-> "ENG-99"])))

jira_create_issue_link(c, e, data) ==
    BackendCall(c, e, "jira", "create_issue_link", [data |-> data], Ok(None))

jira_get_issue_link_types(c, e) ==
    BackendCall(c, e, "jira", "get_issue_link_types", << >>,
        Ok(JList(<< [id |-> "1", name |-> "Blocks",
                      inward |-> "is blocked by", outward |-> "blocks"] >>)))

\* ", ".join(keys) and "\n".join(lines)
RECURSIVE Join(_, _)
Join(seq, sep) ==
    IF seq = <<>> THEN ""
    ELSE IF Len(seq) = 1 THEN seq[1]
    ELSE seq[1] \o sep \o Join(Tail(seq), sep)

LinkType(link) ==
    IF "type" \in DOMAIN link THEN DictGet(link.type, "inward", "Unknown") ELSE "Unknown"

LinkIssue(link) ==
    IF "inwardIssue" \in DOMAIN link THEN DictGet(link.inwardIssue, "key", "UNKNOWN")
    ELSE "UNKNOWN"

\* the keys of grouped_links, in order of first insertion
RECURSIVE GroupLabels(_, _)
GroupLabels(links, seen) ==
    IF links = <<>> THEN <<>>
    ELSE LET K(t) == IF t \in seen THEN GroupLabels(Tail(links), seen)
                     ELSE <<t>> \o GroupLabels(Tail(links), seen \cup {t})
         IN  K(LinkType(Head(links)))

\* grouped_links[label]: the targets of the links with that label, in order
RECURSIVE GroupKeys(_, _)
GroupKeys(links, label) ==
    IF links = <<>> THEN <<>>
    ELSE IF LinkType(Head(links)) = label
         THEN <<LinkIssue(Head(links))>> \o GroupKeys(Tail(links), label)
         ELSE GroupKeys(Tail(links), label)

\* issue_links of get_issue (jira.py:102-120)
FormatLinks(links) ==
    IF Len(links) > 0
    THEN LET K(labels) ==
                "" \o "\n" \o
                Join([i \in 1..Len(labels) |->
                        labels[i] \o ": " \o Join(GroupKeys(links, labels[i]), ", ")], "\n")
         IN  K(GroupLabels(links, {}))
    ELSE ""

\* the comments of get_issue (jira.py:91-97)
IssueComments(fields) ==
    IF "comment" \in DOMAIN fields
    THEN [i \in 1..Len(fields.comment.comments) |->
            [body |-> _clean_text(fields.comment.comments[i].body),
             created |-> Str(_parse_date(fields.comment.comments[i].created)),
             author |-> DictGet(fields.comment.comments[i].author, "displayName", "Unknown")]]
    ELSE << >>

\* the body of get_issue's try block (jira.py:85-151)
get_issue_try(c, e, issue_key, expand) ==
    LET K(r) ==
            LET B(fields, description, comments, created_date, issue_links, title) ==
                    IF "priority" \in DOMAIN fields /\ fields.priority = None
                    THEN Raise(r.calls, "AttributeError", NoneAttrMsg("get"))
                    ELSE Return(r.calls,
                            Document(
                                "Issue: " \o issue_key \o "\nTitle: " \o title
                                \o "\nType: " \o fields.issuetype.name
                                \o "\nStatus: " \o fields.status.name
                                \o "\nCreated: " \o created_date
                                \o "\n\nDescription:\n" \o description
                                \o "\n\nLinks: \n" \o issue_links
                                \o "\n\nComments:\n"
                                \o Join([i \in 1..Len(comments) |->
                                            comments[i].created \o " - " \o comments[i].author
                                                \o ": " \o comments[i].body], "\n"),
                                [key |-> issue_key,
                                 title |-> title,
                                 type |-> fields.issuetype.name,
                                 status |-> fields.status.name,
                                 created_date |-> created_date,
                                 priority |-> IF "priority" \in DOMAIN fields
                                              THEN DictGet(fields.priority, "name", "None")
                                              ELSE "None",
                                 link |-> JiraUrlStripped \o "/browse/" \o issue_key]))
            IN  B(r.val.fields,
                  _clean_text(DictGet(r.val.fields, "description", JStr(""))),
                  IssueComments(r.val.fields),
                  Str(_parse_date(r.val.fields.created)),
                  FormatLinks(DictGet(r.val.fields, "issuelinks", << >>)),
                  DictGet(r.val.fields, "summary", ""))
    IN  Then(jira_issue(c, e, issue_key, expand), K)

\* mutant: the except clause logs and answers with an empty Document
get_issue_swallows(c, e, issue_key, expand) ==
    LET K(r) == IF r.kind = "raise"
                THEN Return(r.calls, Document("", [key |-> issue_key, title |-> "",
                        type |-> "", status |-> "", created_date |-> "",
                        priority |-> "None", link |-> ""]))
                ELSE r
    IN  K(get_issue_try(c, e, issue_key, expand))

\* try: ... except Exception: log; raise
get_issue(c, e, issue_key, expand) == get_issue_try(c, e, issue_key, expand)

\* mutant: a failing fetch ends the loop and the Documents built so far are kept
RECURSIVE FetchHits_partial(_, _, _, _, _)
FetchHits_partial(c, e, issues, i, expand) ==
    IF i > Len(issues) THEN Return(c, <<>>)
    ELSE LET D(d) ==
                IF d.kind = "raise" THEN Return(d.calls, <<>>)
                ELSE LET R(rest) == Return(rest.calls, <<d.val>> \o rest.val)
                     IN  R(FetchHits_partial(d.calls, e, issues, i + 1, expand))
         IN  D(get_issue(c, e, issues[i].key, expand))

\* the loop of search_issues: one get_issue per hit, stops at the first exception
RECURSIVE FetchHits(_, _, _, _, _)
FetchHits(c, e, issues, i, expand) ==
    IF i > Len(issues) THEN Return(c, <<>>)
    ELSE LET D(d) ==
                LET R(rest) == Return(rest.calls, <<d.val>> \o rest.val)
                IN  Then(FetchHits(d.calls, e, issues, i + 1, expand), R)
         IN  Then(get_issue(c, e, issues[i].key, expand), D)

\* try: ... except Exception: log; raise
search_issues(c, e, jql, fields, start, limit, expand) ==
    LET K(r) == FetchHits(r.calls, e, r.val.issues, 1, expand)
    IN  Then(jira_jql(c, e, jql, fields, start, limit, expand), K)

get_project_issues(c, e, project_key, start, limit) ==
    search_issues(c, e, "project = " \o project_key \o " ORDER BY created DESC",
                  "*all", start, limit, None)

\* dict d updated with the items of u
DictUpdate(d, u) ==
    [k \in DOMAIN d \cup DOMAIN u |-> IF k \in DOMAIN u THEN u[k] ELSE d[k]]

\* mutant: the mandatory fields are set first and the extra fields laid over them
create_issue_extra_wins(c, e, projectKey, issueType, summary, descr, fields) ==
    IF fields # None /\ fields.t = "str"
    THEN Raise(c, "TypeError", "'str' object does not support item assignment")
    ELSE LET F(f) ==
                LET K(r) == Return(r.calls, Document(r.val, f))
                IN  Then(jira_create_issue(c, e, f), K)
         IN  F(DictUpdate([project |-> [key |-> projectKey],
                           summary |-> summary,
                           issuetype |-> [name |-> issueType],
                           description |-> descr],
                          IF fields = None THEN << >> ELSE fields.v))

\* fields is None, a dict [t |-> "dict", v |-> ..] or a str [t |-> "str", v |-> ..]
create_issue(c, e, projectKey, issueType, summary, descr, fields) ==
    IF fields # None /\ fields.t = "str"
    THEN Raise(c, "TypeError", "'str' object does not support item assignment")
    ELSE LET F(f) ==
                LET K(r) == Return(r.calls, Document(r.val, f))
                IN  Then(jira_create_issue(c, e, f), K)
         IN  F(DictUpdate(IF fields = None THEN << >> ELSE fields.v,
                          [project |-> [key |-> projectKey],
                           summary |-> summary,
                           issuetype |-> [name |-> issueType],
                           description |-> descr]))

create_issue_link(c, e, linkType, inwardIssue, outwardIssue, comment) ==
    LET F(data) ==
            LET K(r) == Return(r.calls, Document(r.val, data))
            IN  Then(jira_create_issue_link(c, e, data), K)
    IN  F([type |-> [name |-> linkType],
           inwardIssue |-> [key |-> inwardIssue],
           outwardIssue |-> [key |-> outwardIssue],
           comment |-> [body |-> comment]])

get_issue_link_types(c, e) ==
    LET K(r) == Return(r.calls, Document(r.val, r.val))
    IN  Then(jira_get_issue_link_types(c, e), K)

\* default values of the fetchers' parameters
SpacePagesStart == 0

SpacePagesLimit == 10

SearchStart == 0

ProjectIssuesLimit == 50

(***************************************************************************)
(* server.py: the tool registry (list_tools)                               *)
(***************************************************************************)
ConfluenceTools ==
    { "confluence_search", "confluence_get_page", "split_page",
      "confluence_get_comments", "get_page_by_title", "get_space_pages" }

JiraTools ==
    { "jira_get_issue", "jira_search", "jira_get_project_issues",
      "create_issue", "create_issue_link", "get_issue_link_types" }

ToolNames == ConfluenceTools \cup JiraTools

\* inputSchema["required"] of each tool
Required(name) ==
    CASE name = "confluence_search" -> {"query"}
      [] name = "confluence_get_page" -> {"page_id"}
      [] name = "split_page" -> {"page_id"}
      [] name = "confluence_get_comments" -> {"page_id"}
      [] name = "get_page_by_title" -> {"space_key", "title"}
      [] name = "get_space_pages" -> {"space_key"}
      [] name = "jira_get_issue" -> {"issue_key"}
      [] name = "jira_search" -> {"jql"}
      [] name = "jira_get_project_issues" -> {"project_key"}
      [] name = "create_issue" -> {"projectKey", "issueType", "summary", "descr"}
      [] name = "create_issue_link" -> {"linkType", "inwardIssue", "outwardIssue"}
      [] OTHER -> {}

\* inputSchema["properties"] of each tool
Properties(name) ==
    CASE name = "confluence_search" -> {"query", "limit"}
      [] name = "confluence_get_page" -> {"page_id", "include_metadata"}
      [] name = "split_page" -> {"page_id", "start", "limit"}
      [] name = "confluence_get_comments" -> {"page_id"}
      [] name = "get_page_by_title" -> {"space_key", "title", "include_metadata"}
      [] name = "get_space_pages" -> {"space_key", "start", "limit"}
      [] name = "jira_get_issue" -> {"issue_key", "expand"}
      [] name = "jira_search" -> {"jql", "fields", "limit"}
      [] name = "jira_get_project_issues" -> {"project_key", "limit"}
      [] name = "create_issue" -> {"projectKey", "issueType", "summary", "descr", "fields"}
      [] name = "create_issue_link" -> {"linkType", "inwardIssue", "outwardIssue", "comment"}
      [] OTHER -> {}

\* list_tools: the tools of the configured backends
list_tools(svc) ==
    (IF svc.confluence THEN ConfluenceTools ELSE {})
        \cup (IF svc.jira THEN JiraTools ELSE {})

(***************************************************************************)
(* server.py: call_tool                                                    *)
(***************************************************************************)
DefaultLimit == 10

MaxLimit == 50

DefaultStart == 0

ExcerptBudget == 500

\* mutant: the caller's limit is used as it comes
ClampLimit_unclamped(arguments) == DictGet(arguments, "limit", DefaultLimit)

\* limit = min(int(arguments.get("limit", 10)), 50)
ClampLimit(arguments) == Min(DictGet(arguments, "limit", DefaultLimit), MaxLimit)

TextContent(result) == [type |-> "TextContent", text |-> [json |-> result]]

\* the first key of keys (in evaluation order) that arguments lacks, or ""
RECURSIVE FirstMissing(_, _)
FirstMissing(arguments, keys) ==
    IF keys = <<>> THEN ""
    ELSE IF Head(keys) \notin DOMAIN arguments THEN Head(keys)
    ELSE FirstMissing(arguments, Tail(keys))

\* fetcher.method(arguments[k1], arguments[k2], ..): the attribute is read on the
\* fetcher (None when its backend is not configured), then the subscripts are
\* evaluated in order; "" when neither raises
CallPrologue(configured, method, arguments, keys) ==
    IF ~configured THEN Raise(<<>>, "AttributeError", NoneAttrMsg(method))
    ELSE LET K(k) == IF k # "" THEN Raise(<<>>, "KeyError", KeyErrorMsg(k))
                     ELSE Return(<<>>, None)
         IN  K(FirstMissing(arguments, keys))

\* the first key of keys that some document's metadata lacks, or ""
MissingMeta(documents, keys) ==
    IF \E i \in 1..Len(documents) : FirstMissing(documents[i].metadata, keys) # ""
    THEN FirstMissing(
            documents[CHOOSE j \in 1..Len(documents) :
                /\ FirstMissing(documents[j].metadata, keys) # ""
                /\ \A k \in 1..(j - 1) : FirstMissing(documents[k].metadata, keys) = ""
            ].metadata, keys)
    ELSE ""

ConfluenceHitKeys == <<"page_id", "title", "space", "url", "last_modified", "type">>

\* the search-result shaping shared by confluence_search and get_space_pages
ShapeConfluenceHits(c, documents) ==
    LET K(k) ==
            IF k # "" THEN Raise(c, "KeyError", KeyErrorMsg(k))
            ELSE Return(c, TextContent(
                    [i \in 1..Len(documents) |->
                        [page_id |-> documents[i].metadata.page_id,
                         title |-> documents[i].metadata.title,
                         space |-> documents[i].metadata.space,
                         url |-> documents[i].metadata.url,
                         last_modified |-> documents[i].metadata.last_modified,
                         type |-> documents[i].metadata.type,
                         excerpt |-> documents[i].page_content]]))
    IN  K(MissingMeta(documents, ConfluenceHitKeys))

\* {"content": .., "metadata": ..} of a Document, or an AttributeError on None
ShapeDocument(c, doc, include_metadata) ==
    IF doc = None THEN Raise(c, "AttributeError", NoneAttrMsg("page_content"))
    ELSE IF include_metadata
         THEN Return(c, TextContent([content |-> doc.page_content,
                                     metadata |-> doc.metadata]))
         ELSE Return(c, TextContent([content |-> doc.page_content]))

tool_confluence_search(svc, arguments, e) ==
    LET P(p) ==
            LET K(r) == ShapeConfluenceHits(r.calls, r.val)
            IN  Then(search(<<>>, e, arguments.query,
                            ClampLimit(arguments)), K)
    IN  Then(CallPrologue(svc.confluence, "search", arguments, <<"query">>), P)

tool_confluence_get_page(svc, arguments, e) ==
    LET P(p) ==
            LET K(r) == ShapeDocument(r.calls, r.val,
                                      DictGet(arguments, "include_metadata", TRUE))
            IN  Then(get_page_content(<<>>, e, arguments.page_id, TRUE), K)
    IN  Then(CallPrologue(svc.confluence, "get_page_content", arguments, <<"page_id">>), P)

tool_confluence_get_comments(svc, arguments, e) ==
    LET P(p) ==
            LET K(r) ==
                    Return(r.calls, TextContent(
                        [i \in 1..Len(r.val) |->
                            [author |-> r.val[i].metadata.author_name,
                             created |-> r.val[i].metadata.last_modified,
                             content |-> r.val[i].page_content]]))
            IN  Then(get_page_comments(<<>>, e, arguments.page_id, TRUE), K)
    IN  Then(CallPrologue(svc.confluence, "get_page_comments", arguments, <<"page_id">>), P)

tool_split_page(svc, arguments, e) ==
    LET S(start, limit) ==
            LET K(r) ==
                    LET W(window) ==
                            Return(r.calls, TextContent(
                                [page_id |-> arguments.page_id,
                                 start |-> start,
                                 limit |-> limit,
                                 count |-> Len(r.val),
                                 parts |-> [i \in 1..Len(window) |->
                                               [content |-> window[i].page_content,
                                                metadata |-> window[i].metadata]]]))
                    IN  W(PySlice(r.val, start, start + limit))
            IN  Then(split_page(<<>>, e, arguments.page_id, TRUE), K)
    IN  IF "page_id" \notin DOMAIN arguments
        THEN Raise(<<>>, "KeyError", KeyErrorMsg("page_id"))
        ELSE IF ~svc.confluence
        THEN Raise(<<>>, "AttributeError", NoneAttrMsg("split_page"))
        ELSE S(DictGet(arguments, "start", DefaultStart),
               DictGet(arguments, "limit", DefaultLimit))

tool_get_page_by_title(svc, arguments, e) ==
    LET P(p) ==
            LET K(r) == ShapeDocument(r.calls, r.val,
                                      DictGet(arguments, "include_metadata", TRUE))
            IN  Then(get_page_by_title(<<>>, e, arguments.space_key,
                                       arguments.title, TRUE), K)
    IN  Then(CallPrologue(svc.confluence, "get_page_by_title", arguments,
                          <<"space_key", "title">>), P)

\* the space key is read from arguments["query"] (server.py:486)
tool_get_space_pages(svc, arguments, e) ==
    LET P(p) ==
            LET K(r) == ShapeConfluenceHits(r.calls, r.val)
            IN  Then(get_space_pages(<<>>, e, arguments.query,
                        DictGet(arguments, "start", DefaultStart),
                        ClampLimit(arguments),
                        TRUE), K)
    IN  Then(CallPrologue(svc.confluence, "get_space_pages", arguments, <<"query">>), P)

tool_jira_get_issue(svc, arguments, e) ==
    LET P(p) ==
            LET K(r) == ShapeDocument(r.calls, r.val, TRUE)
            IN  Then(get_issue(<<>>, e, arguments.issue_key,
                               DictGet(arguments, "expand", None)), K)
    IN  Then(CallPrologue(svc.jira, "get_issue", arguments, <<"issue_key">>), P)

\* doc.page_content[:500] + "..." if it is longer than 500 characters
Excerpt(content) ==
    IF Len(content) > ExcerptBudget
    THEN SubSeq(content, 1, ExcerptBudget) \o "..." ELSE content

tool_jira_search(svc, arguments, e) ==
    LET P(p) ==
            LET K(r) ==
                    Return(r.calls, TextContent(
                        [i \in 1..Len(r.val) |->
                            [key |-> r.val[i].metadata.key,
                             title |-> r.val[i].metadata.title,
                             type |-> r.val[i].metadata.type,
                             status |-> r.val[i].metadata.status,
                             created_date |-> r.val[i].metadata.created_date,
                             priority |-> r.val[i].metadata.priority,
                             link |-> r.val[i].metadata.link,
                             excerpt |-> Excerpt(r.val[i].page_content)]]))
            IN  Then(search_issues(<<>>, e, arguments.jql,
                        DictGet(arguments, "fields", "*all"), SearchStart,
                        ClampLimit(arguments),
                        None), K)
    IN  Then(CallPrologue(svc.jira, "search_issues", arguments, <<"jql">>), P)

tool_jira_get_project_issues(svc, arguments, e) ==
    LET P(p) ==
            LET K(r) ==
                    Return(r.calls, TextContent(
                        [i \in 1..Len(r.val) |->
                            [key |-> r.val[i].metadata.key,
                             title |-> r.val[i].metadata.title,
                             type |-> r.val[i].metadata.type,
                             status |-> r.val[i].metadata.status,
                             created_date |-> r.val[i].metadata.created_date,
                             link |-> r.val[i].metadata.link]]))
            IN  Then(get_project_issues(<<>>, e, arguments.project_key, SearchStart,
                        ClampLimit(arguments)), K)
    IN  Then(CallPrologue(svc.jira, "get_project_issues", arguments, <<"project_key">>), P)

\* descr and fields are read with arguments.get (server.py:549)
tool_create_issue(svc, arguments, e) ==
    LET P(p) ==
            LET K(r) == ShapeDocument(r.calls, r.val, TRUE)
            IN  Then(create_issue(<<>>, e, arguments.projectKey, arguments.issueType,
                                  arguments.summary,
                                  DictGet(arguments, "descr", None),
                                  DictGet(arguments, "fields", None)), K)
    IN  Then(CallPrologue(svc.jira, "create_issue", arguments,
                          <<"projectKey", "issueType", "summary">>), P)

tool_create_issue_link(svc, arguments, e) ==
    LET P(p) ==
            LET K(r) == ShapeDocument(r.calls, r.val, TRUE)
            IN  Then(create_issue_link(<<>>, e, arguments.linkType,
                                       arguments.inwardIssue, arguments.outwardIssue,
                                       DictGet(arguments, "comment", None)), K)
    IN  Then(CallPrologue(svc.jira, "create_issue_link", arguments,
                          <<"linkType", "inwardIssue", "outwardIssue">>), P)

tool_get_issue_link_types(svc, arguments, e) ==
    LET P(p) ==
            LET K(r) == ShapeDocument(r.calls, r.val, TRUE)
            IN  Then(get_issue_link_types(<<>>, e), K)
    IN  Then(CallPrologue(svc.jira, "get_issue_link_types", arguments, << >>), P)

\* mutant: an unknown name answers with an empty result instead of raising
unknown_tool_returns(name) == Return(<<>>, TextContent(<< >>))

\* raise ValueError(f"Unknown tool: {name}")
unknown_tool(name) == Raise(<<>>, "ValueError", "Unknown tool: " \o name)

\* the if/elif chain of call_tool's try block (server.py:394-568)
call_tool_try(svc, name, arguments, e) ==
    CASE name = "confluence_search" -> tool_confluence_search(svc, arguments, e)
      [] name = "confluence_get_page" -> tool_confluence_get_page(svc, arguments, e)
      [] name = "confluence_get_comments" -> tool_confluence_get_comments(svc, arguments, e)
      [] name = "split_page" -> tool_split_page(svc, arguments, e)
      [] name = "get_page_by_title" -> tool_get_page_by_title(svc, arguments, e)
      [] name = "get_space_pages" -> tool_get_space_pages(svc, arguments, e)
      [] name = "jira_get_issue" -> tool_jira_get_issue(svc, arguments, e)
      [] name = "jira_search" -> tool_jira_search(svc, arguments, e)
      [] name = "jira_get_project_issues" -> tool_jira_get_project_issues(svc, arguments, e)
      [] name = "create_issue" -> tool_create_issue(svc, arguments, e)
      [] name = "create_issue_link" -> tool_create_issue_link(svc, arguments, e)
      [] name = "get_issue_link_types" -> tool_get_issue_link_types(svc, arguments, e)
      [] OTHER -> unknown_tool(name)

\* mutant: the except clause logs and re-raises the original exception
call_tool_reraises(svc, name, arguments, e) == call_tool_try(svc, name, arguments, e)

\* except Exception as e: log; raise RuntimeError(f"Tool execution failed: {str(e)}")
call_tool(svc, name, arguments, e) ==
    LET K(r) == IF r.kind = "raise"
                THEN RaiseFrom(r.calls, "RuntimeError",
                               "Tool execution failed: " \o r.exc.msg, r.exc)
                ELSE r
    IN  K(call_tool_try(svc, name, arguments, e))

(***************************************************************************)
(* server.py: read_resource                                                *)
(***************************************************************************)
ConfluenceScheme == <<"c", "o", "n", "f", "l", "u", "e", "n", "c", "e", ":", "/", "/">>

JiraScheme == <<"j", "i", "r", "a", ":", "/", "/">>

\* s.split(sep): the pieces between the separators, empty pieces included
RECURSIVE Split(_, _)
Split(s, sep) ==
    IF \E i \in 1..Len(s) : s[i] = sep
    THEN LET i == CHOOSE j \in 1..Len(s) : s[j] = sep /\ \A k \in 1..(j - 1) : s[k] # sep
         IN  <<SubSeq(s, 1, i - 1)>> \o Split(SubSeq(s, i + 1, Len(s)), sep)
    ELSE <<s>>

InvalidUri(uri_str) == Raise(<<>>, "ValueError", "Invalid resource URI: " \o Str(uri_str))

\* mutant: the kind segment is not compared
IsItemRead_any_kind(parts, kind) == Len(parts) >= 3

\* len(parts) >= 3 and parts[1] == kind
IsItemRead(parts, kind) == Len(parts) >= 3 /\ Str(parts[2]) = kind

\* the routing of a confluence:// URI by its path (server.py:97-117)
route_confluence(uri_str, e) ==
    LET L(r) ==
            Return(r.calls,
                Join([i \in 1..Len(r.val) |->
                        "# " \o r.val[i].metadata.title \o "\n\n"
                            \o r.val[i].page_content \o "\n---"], "\n\n"))
        G(r, title) ==
            IF r.kind = "raise" THEN r
            ELSE IF r.val = None
            THEN Raise(r.calls, "ValueError", "Page not found: " \o title)
            ELSE Return(r.calls, r.val.page_content)
        R(parts) ==
            IF Len(parts) = 1
            THEN Then(get_space_pages(<<>>, e, Str(parts[1]), SpacePagesStart,
                                      SpacePagesLimit, TRUE), L)
            ELSE IF IsItemRead(parts, "pages")
            THEN G(get_page_by_title(<<>>, e, Str(parts[1]), Str(parts[3]), TRUE),
                   Str(parts[3]))
            ELSE InvalidUri(uri_str)
    IN  R(Split(Replace(uri_str, ConfluenceScheme, <<>>), "/"))

\* mutant: the availability flag is not consulted
read_confluence_unchecked(svc, uri_str, e) == route_confluence(uri_str, e)

\* the confluence:// branch (server.py:94-117)
read_confluence(svc, uri_str, e) ==
    IF ~svc.confluence
    THEN Raise(<<>>, "ValueError",
               "Confluence is not configured. Please provide Confluence credentials.")
    ELSE route_confluence(uri_str, e)

\* the routing of a jira:// URI by its path (server.py:123-138)
route_jira(uri_str, e) ==
    LET L(r) ==
            Return(r.calls,
                Join([i \in 1..Len(r.val) |->
                        "# " \o r.val[i].metadata.key \o ": "
                            \o r.val[i].metadata.title \o "\n\n"
                            \o r.val[i].page_content \o "\n---"], "\n\n"))
        G(r) == IF r.val = None
                THEN Raise(r.calls, "AttributeError", NoneAttrMsg("page_content"))
                ELSE Return(r.calls, r.val.page_content)
        R(parts) ==
            IF Len(parts) = 1
            THEN Then(get_project_issues(<<>>, e, Str(parts[1]), SearchStart,
                                         ProjectIssuesLimit), L)
            ELSE IF IsItemRead(parts, "issues")
            THEN Then(get_issue(<<>>, e, Str(parts[3]), None), G)
            ELSE InvalidUri(uri_str)
    IN  R(Split(Replace(uri_str, JiraScheme, <<>>), "/"))

\* mutant: the jira:// branch links the issue it reads before reading it
read_jira_writes(svc, uri_str, e) ==
    IF ~svc.jira
    THEN Raise(<<>>, "ValueError",
               "Jira is not configured. Please provide Jira credentials.")
    ELSE LET K(w) ==
                LET J(r) == [r EXCEPT !.calls = w.calls \o r.calls]
                IN  J(route_jira(uri_str, e))
         IN  K(jira_create_issue_link(<<>>, e, [type |-> [name |-> "Relates"]]))

\* the jira:// branch (server.py:120-138)
read_jira(svc, uri_str, e) ==
    IF ~svc.jira
    THEN Raise(<<>>, "ValueError",
               "Jira is not configured. Please provide Jira credentials.")
    ELSE route_jira(uri_str, e)

read_resource(svc, uri_str, e) ==
    IF StartsWith(uri_str, ConfluenceScheme) THEN read_confluence(svc, uri_str, e)
    ELSE IF StartsWith(uri_str, JiraScheme) THEN read_jira(svc, uri_str, e)
    ELSE InvalidUri(uri_str)

(***************************************************************************)
(* Inputs of the handlers.                                                 *)
(***************************************************************************)
NoEnv == [failAt |-> 0, hits |-> << >>, nparts |-> 0]

NoRes == [calls |-> << >>, kind |-> "none", val |-> None, exc |-> None]

NoReq == [op |-> "none"]

SeqsUpTo(S, n) == UNION { [1..k -> S] : k \in 0..n }

UnknownNames == { "", "Confluence_Search", "jira_delete_issue" }

LimitValues == { -1, 0, 1, 10, 49, 50, 51, 1000 }

StartValues == { -1, 0, 2 }

\* the keys an invocation of the tool may carry: its schema's properties, and
\* "query", which get_space_pages reads
ToolKeys(name) ==
    IF name \in ToolNames
    THEN Properties(name) \cup (IF name = "get_space_pages" THEN {"query"} ELSE {})
    ELSE {"query", "limit"}

\* the value of argument k: x picks an existing or a missing item
ArgValue(name, k, x, l, s, b) ==
    CASE k = "limit" -> l
      [] k = "start" -> s
      [] k = "include_metadata" -> b
      [] k = "page_id" -> IF x = 1 THEN "101" ELSE "999"
      [] k = "title" -> IF x = 1 THEN "Onboarding" ELSE "Missing"
      [] k = "issue_key" -> IF x = 1 THEN "ENG-12" ELSE IF x = 2 THEN "ENG-404" ELSE "ENG-13"
      [] k = "fields" /\ name = "create_issue" ->
            IF x = 1 THEN [t |-> "dict", v |-> [labels |-> "ops", summary |-> "other"]]
            ELSE [t |-> "str", v |-> "{}"]
      [] k \in {"space_key", "query", "project_key", "projectKey"} -> "ENG"
      [] OTHER -> "v-" \o k

Variants(name, D) ==
    IF "issue_key" \in D THEN {1, 2, 3}
    ELSE IF D \cap {"page_id", "title"} # {} \/ (name = "create_issue" /\ "fields" \in D)
         THEN {1, 2} ELSE {1}

HitValues(name) ==
    IF name = "confluence_search"
    THEN { [ctype |-> "page", excerpt |-> "text"],
           [ctype |-> "blogpost", excerpt |-> "text"],
           [ctype |-> "page", excerpt |-> "null"],
           [ctype |-> "attachment", excerpt |-> "absent"],
           [ctype |-> "page", excerpt |-> "absent"] }
    ELSE IF name \in {"jira_search", "jira_get_project_issues"}
         THEN {"ENG-12", "ENG-14", "ENG-404"}
         ELSE {}

Envs(name) ==
    [failAt : 0..MaxFailAt,
     hits : SeqsUpTo(HitValues(name), MaxHits),
     nparts : IF name = "split_page" THEN 0..MaxParts ELSE {0}]

\* resource URIs: a scheme and path segments joined by "/"
OtherScheme == <<"w", "i", "k", "i", ":", "/", "/">>

SegValues(i) ==
    CASE i = 1 -> { <<"E", "N", "G">>,
      <<"O", "P", "S">>,
      <<>> }
      [] i = 2 -> { <<"p", "a", "g", "e", "s">>,
      <<"i", "s", "s", "u", "e", "s">>,
      <<"x">> }
      [] i = 3 -> { <<"O", "n", "b", "o", "a", "r", "d", "i", "n", "g">>,
      <<"E", "N", "G", "-", "1", "2">>,
      <<"x">> }
      [] OTHER -> { <<"x">> }

SegLists(n) == { segs \in [1..n -> UNION { SegValues(i) : i \in 1..n }] :
                    \A i \in 1..n : segs[i] \in SegValues(i) }

RECURSIVE JoinChars(_, _)
JoinChars(segs, sep) ==
    IF Len(segs) = 1 THEN segs[1]
    ELSE segs[1] \o <<sep>> \o JoinChars(Tail(segs), sep)

UriOf(scheme, segs) == scheme \o JoinChars(segs, "/")

(***************************************************************************)
(* The state machine: one action per handler invocation.                   *)
(***************************************************************************)
Init ==
    /\ services \in [confluence : BOOLEAN, jira : BOOLEAN]
    /\ HandlesCreated
    /\ pc = "idle"
    /\ req = NoReq
    /\ env = NoEnv
    /\ res = NoRes

\* the transport hands a tools/call request to call_tool
CallTool ==
    /\ pc = "idle"
    /\ \E name \in ToolNames \cup UnknownNames :
       \E D \in SUBSET ToolKeys(name) :
       \E x \in Variants(name, D) :
       \E l \in (IF "limit" \in D THEN LimitValues ELSE {DefaultLimit}) :
       \E s \in (IF "start" \in D THEN StartValues ELSE {DefaultStart}) :
       \E b \in (IF "include_metadata" \in D THEN BOOLEAN ELSE {TRUE}) :
       \E e \in Envs(name) :
          LET arguments == [k \in D |-> ArgValue(name, k, x, l, s, b)]
          IN  /\ req' = [op |-> "call_tool", name |-> name, arguments |-> arguments]
              /\ env' = e
              /\ res' = call_tool(services, name, arguments, e)
    /\ pc' = "done"
    /\ UNCHANGED startup

\* the transport hands a resources/read request to read_resource
ReadResource ==
    /\ pc = "idle"
    /\ \E scheme \in {ConfluenceScheme, JiraScheme, OtherScheme} :
       \E n \in 1..MaxSegs :
       \E segs \in SegLists(n) :
       \E f \in 0..MaxFailAt :
       \E h \in (IF scheme = JiraScheme /\ n = 1
                 THEN SeqsUpTo(HitValues("jira_get_project_issues"), MaxHits)
                 ELSE { << >> }) :
          LET e == [failAt |-> f, hits |-> h, nparts |-> 0]
          IN  /\ req' = [op |-> "read_resource",
                         uri |-> UriOf(scheme, segs),
                         scheme |-> Str(scheme),
                         segs |-> [i \in 1..n |-> Str(segs[i])]]
              /\ env' = e
              /\ res' = read_resource(services, UriOf(scheme, segs), e)
    /\ pc' = "done"
    /\ UNCHANGED startup

\* a direct call of ConfluenceFetcher.get_page_by_title
GetPageByTitle ==
    /\ pc = "idle"
    /\ services.confluence
    /\ \E space_key \in {"ENG", "OPS"}, title \in {"Onboarding", "Runbook", "Missing"},
          clean_html \in BOOLEAN, f \in 0..MaxFailAt :
          LET e == [failAt |-> f, hits |-> << >>, nparts |-> 0]
          IN  /\ req' = [op |-> "get_page_by_title", space_key |-> space_key,
                         title |-> title, clean_html |-> clean_html]
              /\ env' = e
              /\ res' = get_page_by_title(<<>>, e, space_key, title, clean_html)
    /\ pc' = "done"
    /\ UNCHANGED startup

\* a direct call of JiraFetcher.get_issue
GetIssue ==
    /\ pc = "idle"
    /\ services.jira
    /\ \E issue_key \in DOMAIN Issues \cup {"ENG-404"}, f \in 0..MaxFailAt :
          LET e == [failAt |-> f, hits |-> << >>, nparts |-> 0]
          IN  /\ req' = [op |-> "get_issue", issue_key |-> issue_key]
              /\ env' = e
              /\ res' = get_issue(<<>>, e, issue_key, None)
    /\ pc' = "done"
    /\ UNCHANGED startup

\* a direct call of ConfluenceFetcher.search
Search ==
    /\ pc = "idle"
    /\ services.confluence
    /\ \E limit \in {DefaultLimit, MaxLimit}, f \in 0..1 :
       \E h \in SeqsUpTo(HitValues("confluence_search"), MaxHits) :
          LET e == [failAt |-> f, hits |-> h, nparts |-> 0]
          IN  /\ req' = [op |-> "search", cql |-> "type=page", limit |-> limit]
              /\ env' = e
              /\ res' = search(<<>>, e, "type=page", limit)
    /\ pc' = "done"
    /\ UNCHANGED startup

\* a direct call of JiraFetcher.search_issues
SearchIssues ==
    /\ pc = "idle"
    /\ services.jira
    /\ \E limit \in {DefaultLimit, ProjectIssuesLimit}, f \in 0..MaxFailAt :
       \E h \in SeqsUpTo(HitValues("jira_search"), MaxHits) :
          LET e == [failAt |-> f, hits |-> h, nparts |-> 0]
          IN  /\ req' = [op |-> "search_issues", jql |-> "project = ENG", limit |-> limit]
              /\ env' = e
              /\ res' = search_issues(<<>>, e, "project = ENG", "*all", SearchStart,
                                      limit, None)
    /\ pc' = "done"
    /\ UNCHANGED startup

\* the extra fields a caller of create_issue may pass: none, or a mapping that
\* may hold keys of its own and keys of the mandatory fields
ExtraFields ==
    { None,
      [t |-> "dict", v |-> << >>],
      [t |-> "dict", v |-> [labels |-> "ops"]],
      [t |-> "dict", v |-> [labels |-> "ops", summary |-> "other"]],
      [t |-> "dict", v |-> [project |-> [key |-> "OPS"], issuetype |-> [name |-> "Epic"],
                            description |-> "other", labels |-> "ops",
                            assignee |-> [name |-> "ann"]]] }

\* a direct call of JiraFetcher.create_issue
CreateIssue ==
    /\ pc = "idle"
    /\ services.jira
    /\ \E projectKey \in {"ENG", "OPS"}, issueType \in {"Bug", "Task"},
          descr \in {"steps", ""}, fields \in ExtraFields, f \in 0..1 :
          LET e == [failAt |-> f, hits |-> << >>, nparts |-> 0]
          IN  /\ req' = [op |-> "create_issue", projectKey |-> projectKey,
                         issueType |-> issueType, summary |-> "Fix login",
                         descr |-> descr, fields |-> fields]
              /\ env' = e
              /\ res' = create_issue(<<>>, e, projectKey, issueType, "Fix login",
                                     descr, fields)
    /\ pc' = "done"
    /\ UNCHANGED startup

\* a direct call of ConfluenceFetcher.get_space_pages
GetSpacePages ==
    /\ pc = "idle"
    /\ services.confluence
    /\ \E space_key \in {"ENG", "OPS"}, start \in {SpacePagesStart, 1},
          limit \in {1, SpacePagesLimit}, clean_html \in BOOLEAN, f \in 0..1 :
          LET e == [failAt |-> f, hits |-> << >>, nparts |-> 0]
          IN  /\ req' = [op |-> "get_space_pages", space_key |-> space_key,
                         start |-> start, limit |-> limit, clean_html |-> clean_html]
              /\ env' = e
              /\ res' = get_space_pages(<<>>, e, space_key, start, limit, clean_html)
    /\ pc' = "done"
    /\ UNCHANGED startup

\* issue links as the tracker serves them: the link type with both labels and
\* the issue at the other end, under inwardIssue or under outwardIssue
LinkTypes ==
    { [name |-> "Blocks", inward |-> "is blocked by", outward |-> "blocks"],
      [name |-> "Relates", inward |-> "relates to", outward |-> "relates to"] }

LinkValues ==
    { [type |-> t, inwardIssue |-> [key |-> k]] : t \in LinkTypes, k \in {"A", "B", "C"} }
        \cup { [type |-> t, outwardIssue |-> [key |-> "D"]] : t \in LinkTypes }

\* a direct call of JiraFetcher.get_issue on an issue carrying the links drawn
GetLinkedIssue ==
    /\ pc = "idle"
    /\ services.jira
    /\ \E links \in SeqsUpTo(LinkValues, MaxLinks), f \in 0..1 :
          LET e == [failAt |-> f, hits |-> << >>, nparts |-> 0, links |-> links]
          IN  /\ req' = [op |-> "get_issue", issue_key |-> LinkedIssueKey]
              /\ env' = e
              /\ res' = get_issue(<<>>, e, LinkedIssueKey, None)
    /\ pc' = "done"
    /\ UNCHANGED startup

\* the response leaves; nothing of the invocation is kept
Respond ==
    /\ pc = "done"
    /\ pc' = "idle"
    /\ req' = NoReq
    /\ env' = NoEnv
    /\ res' = NoRes
    /\ UNCHANGED startup

\* a call of JiraFetcher._parse_date on each of two timestamps
ParseDate ==
    /\ pc = "idle"
    /\ req.op = "_parse_date"
    /\ res' = [calls |-> << >>, kind |-> "return",
               val |-> [a |-> _parse_date(req.a), b |-> _parse_date(req.b)],
               exc |-> None]
    /\ pc' = "done"
    /\ UNCHANGED <<startup, req, env>>

Next ==
    \/ CallTool \/ ReadResource \/ GetPageByTitle \/ GetIssue \/ GetLinkedIssue
    \/ Search \/ SearchIssues \/ CreateIssue \/ GetSpacePages
    \/ Respond

Spec == Init /\ [][Next]_vars

(***************************************************************************)
(* _parse_date as a function of its input: two timestamps are drawn and    *)
(* normalized.                                                             *)
(***************************************************************************)
StampDates ==
    { <<"2", "0", "2", "3", "-", "1", "2", "-", "3", "1">>,
      <<"2", "0", "2", "4", "-", "0", "1", "-", "0", "1">>,
      <<"2", "0", "2", "4", "-", "0", "2", "-", "2", "9">> }

StampTimes ==
    { <<"T", "0", "0", ":", "3", "0", ":", "0", "0">>,
      <<"T", "1", "0", ":", "0", "0", ":", "0", "0">>,
      <<"T", "1", "9", ":", "3", "0", ":", "0", "0">> }

StampFractions ==
    { <<>>,
      <<".", "0", "0", "0">> }

StampZones ==
    { <<"Z">>,
      <<"+", "0", "0", "0", "0">>,
      <<"-", "0", "0", "0", "0">>,
      <<"+", "0", "9", "0", "0">>,
      <<"-", "0", "5", "0", "0">>,
      <<"+", "0", "5", "3", "0">> }

Timestamps ==
    { d \o t \o f \o z : d \in StampDates, t \in StampTimes,
                         f \in StampFractions, z \in StampZones }

InitDate ==
    /\ services = [confluence |-> FALSE, jira |-> TRUE]
    /\ HandlesCreated
    /\ pc = "idle"
    /\ \E a \in Timestamps, b \in Timestamps : req = [op |-> "_parse_date", a |-> a, b |-> b]
    /\ env = NoEnv
    /\ res = NoRes

NextDate == ParseDate

SpecDate == InitDate /\ [][NextDate]_vars

(***************************************************************************)
(* _parse_date on strings that are not timestamps: a body that is no ISO   *)
(* date-time, or none with a valid calendar date, followed by a zone.      *)
(***************************************************************************)
RawBodies ==
    { <<"s", "o", "o", "n">>,
      <<"2", "0", "2", "4", "-", "0", "2", "-", "3", "0", "T", "1", "0", ":", "0", "0", ":", "0", "0">>,
      <<"2", "0", "2", "4", "-", "1", "3", "-", "0", "1", "T", "1", "0", ":", "0", "0", ":", "0", "0", ".", "0", "0", "0">>,
      <<"0", "5", "/", "0", "1", "/", "2", "0", "2", "4", " ", "1", "0", ":", "0", "0">> }

RawZones ==
    { <<>>,
      <<"Z">>,
      <<"+", "0", "0", "0", "0">>,
      <<"-", "0", "0", "0", "0">>,
      <<"+", "0", "9", "0", "0">>,
      <<"-", "0", "5", "0", "0">> }

RawStrings == { b \o z : b \in RawBodies, z \in RawZones }

InitRaw ==
    /\ services = [confluence |-> FALSE, jira |-> TRUE]
    /\ HandlesCreated
    /\ pc = "idle"
    /\ \E a \in RawStrings, b \in RawStrings : req = [op |-> "_parse_date", a |-> a, b |-> b]
    /\ env = NoEnv
    /\ res = NoRes

SpecRaw == InitRaw /\ [][NextDate]_vars

(***************************************************************************)
(* Properties.                                                             *)
(***************************************************************************)
IsCallTool == pc = "done" /\ req.op = "call_tool"

IsReadResource == pc = "done" /\ req.op = "read_resource"

NoBackendCall == Len(res.calls) = 0

FirstCallIs(method) == Len(res.calls) >= 1 /\ res.calls[1].method = method

\* C1: a tool name that is not a registered one makes call_tool raise, and no
\* backend call is made on either client, whatever the arguments
C1_UnknownToolFailsWithoutBackendCall ==
    (IsCallTool /\ req.name \notin ToolNames)
        => (res.kind = "raise" /\ NoBackendCall)

C1_Witness ==
    /\ IsCallTool
    /\ req.name = "jira_delete_issue"
    /\ DOMAIN req.arguments = {"query", "limit"}
    /\ services.confluence /\ services.jira
    /\ res.kind = "raise"
    /\ res.exc.context.type = "ValueError"

RequestedLimit == IF "limit" \in DOMAIN req.arguments THEN req.arguments.limit ELSE 10

\* C2: for confluence_search, jira_search and jira_get_project_issues the limit
\* of the backend query is min(L, 50), with L = 10 when the caller gives none;
\* no query receives a limit above 50
C2_LimitClampedAtBackend ==
    (IsCallTool
        /\ req.name \in {"confluence_search", "jira_search", "jira_get_project_issues"})
        => \A i \in 1..Len(res.calls) :
              res.calls[i].method \in {"cql", "jql"}
                  => /\ res.calls[i].args.limit =
                            (IF RequestedLimit <= 50 THEN RequestedLimit ELSE 50)
                     /\ res.calls[i].args.limit <= 50

C2_Witness ==
    /\ IsCallTool
    /\ req.name = "jira_search"
    /\ "limit" \in DOMAIN req.arguments
    /\ req.arguments.limit = 1000
    /\ FirstCallIs("jql")
    /\ res.calls[1].args.limit = 50

\* C3: an invocation of a registered tool that omits a key of the tool's
\* declared required list fails, and fails before any backend call
C3_MissingRequiredKeyFails ==
    (IsCallTool
        /\ req.name \in ToolNames
        /\ \E k \in Required(req.name) : k \notin DOMAIN req.arguments)
        => (res.kind = "raise" /\ NoBackendCall)

\* C4: whatever is raised while call_tool handles an invocation, the caller sees
\* a RuntimeError whose message is "Tool execution failed: " followed by the
\* message of the original exception
C4_UniformToolFailure ==
    (IsCallTool /\ res.kind = "raise")
        => /\ res.exc.type = "RuntimeError"
           /\ "context" \in DOMAIN res.exc
           /\ res.exc.msg = "Tool execution failed: " \o res.exc.context.msg

C4_Witness ==
    /\ IsCallTool
    /\ res.kind = "raise"
    /\ res.exc.type = "RuntimeError"
    /\ res.exc.context.type = "HTTPError"
    /\ res.exc.msg = "Tool execution failed: backend unavailable"

IsRejected ==
    /\ res.kind = "raise"
    /\ res.exc.type = "ValueError"
    /\ res.exc.msg = "Invalid resource URI: " \o Str(req.uri)
    /\ NoBackendCall

\* C5: read_resource routes a URI of a configured backend by its path segments:
\* one segment lists the container, three or more with "pages" (confluence) or
\* "issues" (jira) as the second read the item named by the third, every other
\* shape and every other scheme is rejected as invalid without a backend call
C5_RoutedBySegments ==
    IsReadResource =>
        IF req.scheme = "confluence://" /\ services.confluence
        THEN IF Len(req.segs) = 1
             THEN /\ FirstCallIs("get_all_pages_from_space")
                  /\ res.calls[1].args.space = req.segs[1]
             ELSE IF Len(req.segs) >= 3 /\ req.segs[2] = "pages"
             THEN /\ FirstCallIs("get_page_by_title")
                  /\ res.calls[1].args.space = req.segs[1]
                  /\ res.calls[1].args.title = req.segs[3]
             ELSE IsRejected
        ELSE IF req.scheme = "jira://" /\ services.jira
        THEN IF Len(req.segs) = 1
             THEN /\ FirstCallIs("jql")
                  /\ res.calls[1].args.jql =
                        "project = " \o req.segs[1] \o " ORDER BY created DESC"
             ELSE IF Len(req.segs) >= 3 /\ req.segs[2] = "issues"
             THEN /\ FirstCallIs("issue")
                  /\ res.calls[1].args.key = req.segs[3]
             ELSE IsRejected
        ELSE IF req.scheme \notin {"confluence://", "jira://"}
        THEN IsRejected
        ELSE TRUE

C5_Witness ==
    /\ IsReadResource
    /\ req.scheme = "confluence://"
    /\ services.confluence
    /\ req.segs = <<"ENG", "pages">>
    /\ res.kind = "raise"
    /\ res.exc.msg = "Invalid resource URI: confluence://ENG/pages"

\* C6: read_resource on a URI of a backend that is not configured raises the
\* "not configured" error for every path shape, without any backend call
C6_UnconfiguredBackendFails ==
    /\ (IsReadResource /\ req.scheme = "confluence://" /\ ~services.confluence)
          => /\ res.kind = "raise"
             /\ res.exc.msg =
                   "Confluence is not configured. Please provide Confluence credentials."
             /\ NoBackendCall
    /\ (IsReadResource /\ req.scheme = "jira://" /\ ~services.jira)
          => /\ res.kind = "raise"
             /\ res.exc.msg = "Jira is not configured. Please provide Jira credentials."
             /\ NoBackendCall

C6_Witness ==
    /\ IsReadResource
    /\ req.scheme = "confluence://"
    /\ ~services.confluence
    /\ req.segs = <<"ENG", "pages">>
    /\ res.kind = "raise"
    /\ res.exc.type = "ValueError"

IsGetPageByTitle == pc = "done" /\ req.op = "get_page_by_title"

PageMatches == \E p \in Pages : p.space = req.space_key /\ p.title = req.title

\* C7: get_page_by_title never raises; it returns None when the backend has no
\* matching page and also when the backend call raises
C7_TitleLookupNeverRaises ==
    IsGetPageByTitle
        => /\ res.kind = "return"
           /\ (~PageMatches \/ env.failAt = 1) => res.val = None

C7_Witness ==
    /\ IsGetPageByTitle
    /\ PageMatches
    /\ env.failAt = 1
    /\ res.kind = "return"
    /\ res.val = None

\* C8: when the backend has a page matching (space_key, title), get_page_by_title
\* with clean_html = True returns a Document carrying that page's id and title
C8_ExistingPageReturned ==
    (IsGetPageByTitle /\ req.clean_html /\ PageMatches /\ env.failAt # 1)
        => /\ res.kind = "return"
           /\ res.val # None
           /\ res.val.metadata.title = req.title

IsGetIssue == pc = "done" /\ req.op = "get_issue"

\* C9: get_issue for a key the backend cannot return raises the backend's error
\* and returns nothing; read_resource on jira://PROJECT/issues/KEY raises as well
C9_MissingIssueRaises ==
    /\ (IsGetIssue /\ (req.issue_key \notin DOMAIN Issues \/ env.failAt = 1))
          => (res.kind = "raise" /\ res.exc.type = "HTTPError" /\ res.val = None)
    /\ (IsReadResource /\ req.scheme = "jira://" /\ services.jira
            /\ Len(req.segs) >= 3 /\ req.segs[2] = "issues"
            /\ (req.segs[3] \notin DOMAIN Issues \/ env.failAt = 1))
          => (res.kind = "raise" /\ res.exc.type = "HTTPError")

C9_Witness ==
    /\ IsGetIssue
    /\ req.issue_key = "ENG-404"
    /\ env.failAt = 0
    /\ res.kind = "raise"
    /\ res.exc.msg = "404 Issue Does Not Exist"

(***************************************************************************)
(* Properties of _parse_date (under SpecDate).                             *)
(***************************************************************************)
IsParseDate == pc = "done" /\ req.op = "_parse_date"

\* a well-formed YYYY-MM-DD string naming a calendar date
IsYMD(s) ==
    /\ Len(s) = 10
    /\ IsDigits(SubSeq(s, 1, 4)) /\ s[5] = "-"
    /\ IsDigits(SubSeq(s, 6, 7)) /\ s[8] = "-"
    /\ IsDigits(SubSeq(s, 9, 10))
    /\ NumVal(SubSeq(s, 6, 7)) \in 1..12
    /\ NumVal(SubSeq(s, 9, 10)) \in
          1..DaysInMonth(NumVal(SubSeq(s, 1, 4)), NumVal(SubSeq(s, 6, 7)))

RECURSIVE DaysBeforeMonth(_, _)
DaysBeforeMonth(y, m) ==
    IF m = 1 THEN 0 ELSE DaysInMonth(y, m - 1) + DaysBeforeMonth(y, m - 1)

\* the day number of a calendar date (proleptic Gregorian)
DayOrdinal(y, m, d) ==
    365 * (y - 1) + ((y - 1) \div 4) - ((y - 1) \div 100) + ((y - 1) \div 400)
        + DaysBeforeMonth(y, m) + d

\* the UTC offset a timestamp is written with, in minutes
StampOffset(ts) ==
    IF ts[Len(ts)] = "Z" THEN 0
    ELSE (IF ts[Len(ts) - 4] = "-" THEN -1 ELSE 1)
            * (60 * NumVal(SubSeq(ts, Len(ts) - 3, Len(ts) - 2))
                + NumVal(SubSeq(ts, Len(ts) - 1, Len(ts))))

\* the instant a timestamp denotes, in minutes
StampInstant(ts) ==
    1440 * DayOrdinal(NumVal(SubSeq(ts, 1, 4)), NumVal(SubSeq(ts, 6, 7)),
                      NumVal(SubSeq(ts, 9, 10)))
        + 60 * NumVal(SubSeq(ts, 12, 13)) + NumVal(SubSeq(ts, 15, 16))
        - StampOffset(ts)

\* C10 as stated: every timestamp yields a well-formed YYYY-MM-DD string, and
\* two timestamps that denote the same instant yield the same string
C10_SameInstantSameDate ==
    IsParseDate
        => /\ IsYMD(res.val.a) /\ IsYMD(res.val.b)
           /\ StampInstant(req.a) = StampInstant(req.b) => res.val.a = res.val.b

\* C10 amended: every timestamp yields a well-formed YYYY-MM-DD string, the
\* calendar date the timestamp is written with (in its own offset); two
\* timestamps that denote the same instant and are written with the same
\* offset (Z, +0000 and -0000 all being offset zero) yield the same string
C10_LocalDateOfTimestamp ==
    IsParseDate
        => /\ IsYMD(res.val.a) /\ IsYMD(res.val.b)
           /\ res.val.a = SubSeq(req.a, 1, 10)
           /\ res.val.b = SubSeq(req.b, 1, 10)
           /\ (StampInstant(req.a) = StampInstant(req.b)
                  /\ StampOffset(req.a) = StampOffset(req.b))
                 => res.val.a = res.val.b

C10_Witness ==
    /\ IsParseDate
    /\ req.a = <<"2", "0", "2", "4", "-", "0", "2", "-", "2", "9", "T", "1", "0", ":", "0", "0", ":", "0", "0", ".", "0", "0", "0", "+", "0", "0", "0", "0">>
    /\ req.b = <<"2", "0", "2", "4", "-", "0", "2", "-", "2", "9", "T", "1", "0", ":", "0", "0", ":", "0", "0", "Z">>
    /\ res.val.a = <<"2", "0", "2", "4", "-", "0", "2", "-", "2", "9">>
    /\ res.val.b = res.val.a

(***************************************************************************)
(* Properties of _parse_date on unparseable input (under SpecRaw).         *)
(***************************************************************************)
\* datetime.fromisoformat rejects the string _parse_date hands to it
Unparseable(date_str) ==
    /\ date_str # <<>>
    /\ ~IsIsoFormat(Replace(NormalizeOffset(date_str), <<"Z">>,
                            <<"+", "0", "0", ":", "0", "0">>))

\* C11: for a non-empty string that cannot be parsed after the offset rewrite,
\* _parse_date does not raise and returns the raw input exactly as passed in
C11_RawInputReturned ==
    IsParseDate
        => /\ res.kind = "return"
           /\ Unparseable(req.a) => res.val.a = req.a
           /\ Unparseable(req.b) => res.val.b = req.b

(***************************************************************************)
(* Properties of the report get_issue synthesizes.                         *)
(***************************************************************************)
\* the first position >= i at which sub occurs in text, 0 when it does not
RECURSIVE FindFrom(_, _, _)
FindFrom(text, sub, i) ==
    IF i + Len(sub) - 1 > Len(text) THEN 0
    ELSE IF SubSeq(text, i, i + Len(sub) - 1) = sub THEN i
    ELSE FindFrom(text, sub, i + 1)

\* the text between the first open marker and the next close marker
Between(text, open, close) ==
    LET A(a) ==
            LET B(b) == SubSeq(text, a + Len(open), b - 1)
            IN  B(FindFrom(text, close, a + Len(open)))
    IN  A(FindFrom(text, open, 1))

HasSection(text, open, close) ==
    LET A(a) == a > 0 /\ FindFrom(text, close, a + Len(open)) > 0
    IN  A(FindFrom(text, open, 1))

\* the non-empty lines of a text
RECURSIVE TextLines(_)
TextLines(text) ==
    LET A(i) ==
            IF i = 0 THEN (IF text = "" THEN << >> ELSE <<text>>)
            ELSE (IF i = 1 THEN << >> ELSE <<SubSeq(text, 1, i - 1)>>)
                    \o TextLines(SubSeq(text, i + 1, Len(text)))
    IN  A(FindFrom(text, "\n", 1))

IsLinkedIssue ==
    pc = "done" /\ req.op = "get_issue" /\ "links" \in DOMAIN env /\ res.kind = "return"

LinksBlock == Between(res.val.page_content, "\n\nLinks: \n", "\n\nComments:\n")

\* the inward relationship label of a link, and the key of the issue it points to
LabelOf(link) == link.type.inward

TargetOf(link) ==
    IF "inwardIssue" \in DOMAIN link THEN link.inwardIssue.key ELSE link.outwardIssue.key

LabelsOf(links) == { LabelOf(links[i]) : i \in DOMAIN links }

FirstAt(links, label) ==
    CHOOSE i \in DOMAIN links :
        /\ LabelOf(links[i]) = label
        /\ \A j \in 1..(i - 1) : LabelOf(links[j]) # label

TargetsWith(links, label) ==
    LET sel == SelectSeq(links, LAMBDA l : LabelOf(l) = label)
    IN  [i \in 1..Len(sel) |-> TargetOf(sel[i])]

\* C12: the links block has exactly one line per distinct inward label, lines
\* in order of first encounter, each "{label}: " followed by the comma-joined
\* target keys of the links with that label in encounter order; with no links
\* the "Links:" section is present and empty
C12_LinksGroupedByLabel ==
    IsLinkedIssue =>
        /\ HasSection(res.val.page_content, "\n\nLinks: \n", "\n\nComments:\n")
        /\ Len(TextLines(LinksBlock)) = Cardinality(LabelsOf(env.links))
        /\ \A label \in LabelsOf(env.links) :
              TextLines(LinksBlock)[
                  1 + Cardinality({ m \in LabelsOf(env.links) :
                        FirstAt(env.links, m) < FirstAt(env.links, label) })]
                = label \o ": " \o Join(TargetsWith(env.links, label), ", ")
        /\ env.links = << >> => LinksBlock = ""

(***************************************************************************)
(* Properties of the fetchers' searches.                                   *)
(***************************************************************************)
IsSearch == pc = "done" /\ req.op = "search"

\* the positions of the raw hits of content type "page", in order
PageHitPositions ==
    SelectSeq([i \in 1..Len(env.hits) |-> i], LAMBDA i : env.hits[i].ctype = "page")

\* the excerpt the backend served with the hit at position i
ExcerptServed(i) ==
    IF env.hits[i].excerpt = "text" THEN JStr("excerpt " \o ToString(i))
    ELSE IF env.hits[i].excerpt = "null" THEN None
    ELSE JStr("")

\* C13: search returns exactly the hits of content type "page", in their
\* relative order, one Document per kept hit with the hit's excerpt as content,
\* and makes the single query call only
C13_OnlyPageHitsKept ==
    (IsSearch /\ env.failAt # 1)
        => /\ res.kind = "return"
           /\ Len(res.val) = Len(PageHitPositions)
           /\ \A k \in 1..Len(res.val) :
                 /\ res.val[k].metadata.type = "page"
                 /\ res.val[k].metadata.page_id = "h" \o ToString(PageHitPositions[k])
                 /\ res.val[k].page_content = ExcerptServed(PageHitPositions[k])
           /\ Len(res.calls) = 1
           /\ res.calls[1].method = "cql"

C13_Witness ==
    /\ IsSearch
    /\ env.failAt = 0
    /\ Len(env.hits) = 2
    /\ env.hits[1].ctype = "blogpost"
    /\ env.hits[2] = [ctype |-> "page", excerpt |-> "text"]
    /\ Len(res.val) = 1
    /\ res.val[1].metadata.page_id = "h2"
    /\ res.val[1].page_content = JStr("excerpt 2")

IsSearchIssues == pc = "done" /\ req.op = "search_issues"

\* a tool invocation that reaches its fetcher: backend configured, key present
ReachesFetcher(name, key) ==
    /\ IsCallTool
    /\ req.name = name
    /\ key \in DOMAIN req.arguments
    /\ IF name = "confluence_search" THEN services.confluence ELSE services.jira

\* C14 as stated: when the query call fails, search and search_issues each
\* return an empty result and do not raise, so the confluence_search and
\* jira_search tools answer with an empty JSON list
C14_EverySearchBestEffort ==
    /\ (IsSearch /\ env.failAt = 1) => (res.kind = "return" /\ res.val = << >>)
    /\ (IsSearchIssues /\ env.failAt = 1) => (res.kind = "return" /\ res.val = << >>)
    /\ (ReachesFetcher("confluence_search", "query") /\ env.failAt = 1)
          => (res.kind = "return" /\ res.val.text.json = << >>)
    /\ (ReachesFetcher("jira_search", "jql") /\ env.failAt = 1)
          => (res.kind = "return" /\ res.val.text.json = << >>)

\* C14 amended: when the query call fails, ConfluenceFetcher.search returns an
\* empty result and does not raise, so the confluence_search tool answers with
\* an empty JSON list; JiraFetcher.search_issues re-raises the backend's error,
\* so the jira_search tool fails with "Tool execution failed: ..."
C14_ConfluenceSearchBestEffort ==
    /\ (IsSearch /\ env.failAt = 1) => (res.kind = "return" /\ res.val = << >>)
    /\ (IsSearchIssues /\ env.failAt = 1)
          => (res.kind = "raise" /\ res.exc.type = "HTTPError")
    /\ (ReachesFetcher("confluence_search", "query") /\ env.failAt = 1)
          => (res.kind = "return" /\ res.val.text.json = << >>)
    /\ (ReachesFetcher("jira_search", "jql") /\ env.failAt = 1)
          => /\ res.kind = "raise"
             /\ res.exc.type = "RuntimeError"
             /\ res.exc.msg = "Tool execution failed: backend unavailable"

C14_Witness ==
    /\ ReachesFetcher("confluence_search", "query")
    /\ env.failAt = 1
    /\ Len(env.hits) = 2
    /\ Len(res.calls) = 1
    /\ res.kind = "return"
    /\ res.val.text.json = << >>

(***************************************************************************)
(* Properties of create_issue.                                             *)
(***************************************************************************)
IsCreateIssue == pc = "done" /\ req.op = "create_issue"

MandatoryKeys == {"project", "summary", "issuetype", "description"}

\* the extra fields of the request, as a mapping
ExtraOf(fields) == IF fields = None THEN << >> ELSE fields.v

\* C15: the field set submitted to the backend holds project, summary,
\* issuetype and description as given by the mandatory parameters even when the
\* extra fields hold those keys, keeps every other extra field unchanged, and is
\* the metadata of the returned Document; a backend failure is re-raised
C15_MandatoryFieldsWin ==
    IsCreateIssue =>
        /\ Len(res.calls) = 1
        /\ res.calls[1].method = "create_issue"
        /\ LET submitted == res.calls[1].args.fields
           IN  /\ DOMAIN submitted = MandatoryKeys \cup DOMAIN ExtraOf(req.fields)
               /\ submitted.project = [key |-> req.projectKey]
               /\ submitted.summary = req.summary
               /\ submitted.issuetype = [name |-> req.issueType]
               /\ submitted.description = req.descr
               /\ \A k \in DOMAIN ExtraOf(req.fields) \ MandatoryKeys :
                     submitted[k] = ExtraOf(req.fields)[k]
               /\ env.failAt = 0
                     => (res.kind = "return" /\ res.val.metadata = submitted)
        /\ env.failAt = 1 => (res.kind = "raise" /\ res.exc.type = "HTTPError")

C15_Witness ==
    /\ IsCreateIssue
    /\ req.fields # None
    /\ "project" \in DOMAIN req.fields.v
    /\ req.fields.v.project = [key |-> "OPS"]
    /\ req.projectKey = "ENG"
    /\ env.failAt = 0
    /\ res.kind = "return"
    /\ res.val.metadata.project = [key |-> "ENG"]
    /\ res.val.metadata.assignee = [name |-> "ann"]

(***************************************************************************)
(* Properties of search_issues.                                            *)
(***************************************************************************)
\* the fetch of the hit at position i fails: the backend has no such issue, or
\* it is the failing call of the invocation (the query being call 1)
FetchFails(i) == env.hits[i] \notin DOMAIN Issues \/ env.failAt = i + 1

\* C16: search_issues makes one query call and then one get_issue fetch per hit
\* key, in hit order; it returns one Document per hit in that order, and when a
\* fetch fails the search raises and returns no partial list
C16_OneFetchPerHit ==
    (IsSearchIssues /\ env.failAt # 1) =>
        /\ Len(res.calls) >= 1
        /\ res.calls[1].method = "jql"
        /\ Len(res.calls) <= 1 + Len(env.hits)
        /\ \A i \in 2..Len(res.calls) :
              /\ res.calls[i].method = "issue"
              /\ res.calls[i].args.key = env.hits[i - 1]
        /\ IF \E i \in 1..Len(env.hits) : FetchFails(i)
           THEN /\ res.kind = "raise"
                /\ res.val = None
                /\ FetchFails(Len(res.calls) - 1)
           ELSE /\ res.kind = "return"
                /\ Len(res.calls) = 1 + Len(env.hits)
                /\ Len(res.val) = Len(env.hits)
                /\ \A i \in 1..Len(env.hits) : res.val[i].metadata.key = env.hits[i]

C16_Witness ==
    /\ IsSearchIssues
    /\ env.hits = <<"ENG-14", "ENG-12">>
    /\ env.failAt = 3
    /\ Len(res.calls) = 3
    /\ res.calls[2].args.key = "ENG-14"
    /\ res.calls[3].args.key = "ENG-12"
    /\ res.kind = "raise"

(***************************************************************************)
(* Properties of get_space_pages.                                          *)
(***************************************************************************)
IsGetSpacePages == pc = "done" /\ req.op = "get_space_pages"

\* the ids of the pages of a space, in backend order
PagesOfSpace(space_key) ==
    SelectSeq(PageOrder, LAMBDA id : \E p \in Pages : p.id = id /\ p.space = space_key)

\* the window [start, start + limit) of a sequence
Window(seq, start, limit) ==
    SubSeq(seq, start + 1, IF start + limit <= Len(seq) THEN start + limit ELSE Len(seq))

\* C17: get_space_pages with clean_html = True hands start and limit unchanged
\* to one backend call and returns one Document per page of the returned
\* window, in backend order; read_resource on confluence://SPACE returns one
\* "# {title}" block per page
C17_OneDocumentPerPage ==
    /\ (IsGetSpacePages /\ req.clean_html /\ env.failAt = 0)
          => /\ Len(res.calls) = 1
             /\ res.calls[1].method = "get_all_pages_from_space"
             /\ res.calls[1].args.start = req.start
             /\ res.calls[1].args.limit = req.limit
             /\ res.kind = "return"
             /\ Len(res.val)
                   = Len(Window(PagesOfSpace(req.space_key), req.start, req.limit))
             /\ \A i \in 1..Len(res.val) :
                   res.val[i].metadata.page_id
                       = Window(PagesOfSpace(req.space_key), req.start, req.limit)[i]
    /\ (IsReadResource /\ req.scheme = "confluence://" /\ services.confluence
            /\ Len(req.segs) = 1 /\ env.failAt = 0)
          => /\ res.kind = "return"
             /\ \A p \in Pages :
                   p.space = req.segs[1] => FindFrom(res.val, "# " \o p.title, 1) > 0

(***************************************************************************)
(* Properties of title lookups as callers of the server see them.          *)
(***************************************************************************)
NoPageTitled(space_key, title) ==
    ~\E p \in Pages : p.space = space_key /\ p.title = title

\* C18: a title lookup that misses is never surfaced as an error: the
\* get_page_by_title tool completes without a "tool execution failed" error, and
\* read_resource on confluence://SPACE/pages/TITLE does not raise
C18_TitleMissIsNotAnError ==
    /\ (IsCallTool /\ req.name = "get_page_by_title" /\ services.confluence
            /\ {"space_key", "title"} \subseteq DOMAIN req.arguments
            /\ NoPageTitled(req.arguments.space_key, req.arguments.title)
            /\ env.failAt = 0)
          => res.kind = "return"
    /\ (IsReadResource /\ req.scheme = "confluence://" /\ services.confluence
            /\ Len(req.segs) >= 3 /\ req.segs[2] = "pages"
            /\ NoPageTitled(req.segs[1], req.segs[3])
            /\ env.failAt = 0)
          => res.kind = "return"

(***************************************************************************)
(* Properties of the content of the Documents.                             *)
(***************************************************************************)
\* a value of a payload or response that is a text (not null, object or array)
IsText(v) == v.type = "str"

\* the content a tool that wraps one Document answers with
ToolAnswers(name) ==
    IsCallTool /\ req.name = name /\ services.jira /\ res.kind = "return"

\* C19: the content of every Document a normalizer operation produces is a
\* text and never null; a null or missing upstream text (null excerpt, null
\* description, empty backend response) gives the empty string
C19_ContentIsText ==
    /\ (IsSearch /\ res.kind = "return")
          => \A k \in 1..Len(res.val) :
                /\ IsText(res.val[k].page_content)
                /\ env.hits[PageHitPositions[k]].excerpt # "text"
                      => res.val[k].page_content = JStr("")
    /\ (IsCreateIssue /\ res.kind = "return") => IsText(res.val.page_content)
    /\ ToolAnswers("create_issue_link") => IsText(res.val.text.json.content)
    /\ ToolAnswers("get_issue_link_types") => IsText(res.val.text.json.content)
    /\ (IsGetIssue /\ res.kind = "return" /\ "links" \notin DOMAIN env
            /\ "description" \notin DOMAIN Issues[req.issue_key].fields)
          => Between(res.val.page_content, "\n\nDescription:\n", "\n\nLinks: \n") = ""

(***************************************************************************)
(* Properties of the metadata of get_issue.                                *)
(***************************************************************************)
\* the issue the request names has no priority, or a null one
PriorityUnset ==
    \/ "priority" \notin DOMAIN Issues[req.issue_key].fields
    \/ Issues[req.issue_key].fields.priority = None

\* C20: get_issue on an issue the backend returns never fails, with or without
\* a priority; its metadata has exactly the keys key, title, type, status,
\* created_date, priority and link, and priority is "None" when the issue has
\* no priority or a null one
C20_PriorityDefaultsToNone ==
    (IsGetIssue /\ req.issue_key \in DOMAIN Issues /\ env.failAt # 1)
        => /\ res.kind = "return"
           /\ DOMAIN res.val.metadata =
                 {"key", "title", "type", "status", "created_date", "priority", "link"}
           /\ PriorityUnset => res.val.metadata.priority = "None"

(***************************************************************************)
(* Properties of invocations that follow the declared schemas.             *)
(***************************************************************************)
\* the backend a registered tool needs is configured
BackendConfigured ==
    IF req.name \in ConfluenceTools THEN services.confluence ELSE services.jira

\* a backend call of the invocation ended in the backend's error
BackendCallFailed ==
    /\ res.kind = "raise"
    /\ "context" \in DOMAIN res.exc
    /\ res.exc.context.type = "HTTPError"

\* the invocation carries exactly the required keys of its tool's schema
ExactlyRequired ==
    /\ IsCallTool
    /\ req.name \in ToolNames
    /\ BackendConfigured
    /\ DOMAIN req.arguments = Required(req.name)
    /\ env.failAt = 0
    /\ ~BackendCallFailed

\* C21: an invocation of a registered tool of a configured backend that
\* carries exactly the required keys of the tool's schema, and whose backend
\* calls succeed, returns a JSON result; get_space_pages called with space_key
\* reaches the backend with that space key
C21_RequiredArgumentsSuffice ==
    ExactlyRequired =>
        /\ res.kind = "return"
        /\ res.val.type = "TextContent"
        /\ req.name = "get_space_pages" =>
              /\ FirstCallIs("get_all_pages_from_space")
              /\ res.calls[1].args.space = req.arguments.space_key

(***************************************************************************)
(* The numeric bounds the tool schemas declare (list_tools).               *)
(***************************************************************************)
\* the tools whose schema declares "minimum" and "maximum" of limit
LimitBoundedTools ==
    { "confluence_search", "split_page", "get_space_pages",
      "jira_search", "jira_get_project_issues" }

\* the tools whose schema declares "minimum" of start
StartBoundedTools == { "split_page", "get_space_pages" }

\* inputSchema["properties"]["limit"]["minimum"]
LimitMinimum == 1

\* inputSchema["properties"]["limit"]["maximum"] of a tool
LimitMaximum(name) == IF name = "split_page" THEN 100 ELSE MaxLimit

\* inputSchema["properties"]["start"]["minimum"]
StartMinimum == 0

\* every backend call of the invocation that takes the key has it within lo..hi
CallsWithin(key, lo, hi) ==
    \A i \in 1..Len(res.calls) :
        key \in DOMAIN res.calls[i].args
            => (lo <= res.calls[i].args[key] /\ res.calls[i].args[key] <= hi)

\* C22: for a tool whose schema bounds limit or start, the value that reaches a
\* backend call or windows the result lies in the declared range whatever the
\* caller supplies: no limit below 1 and no start below 0 is used, and
\* split_page answers at most 100 parts
C22_EffectiveValuesWithinBounds ==
    IsCallTool =>
        /\ req.name \in LimitBoundedTools
              => CallsWithin("limit", LimitMinimum, LimitMaximum(req.name))
        /\ req.name \in StartBoundedTools
              => \A i \in 1..Len(res.calls) :
                    "start" \in DOMAIN res.calls[i].args
                        => res.calls[i].args.start >= StartMinimum
        /\ (req.name = "split_page" /\ res.kind = "return")
              => /\ res.val.text.json.start >= StartMinimum
                 /\ res.val.text.json.limit >= LimitMinimum
                 /\ res.val.text.json.limit <= LimitMaximum(req.name)
                 /\ Len(res.val.text.json.parts) <= LimitMaximum(req.name)

(***************************************************************************)
(* Frame properties of the handlers.                                       *)
(***************************************************************************)
\* the backend methods that change the tracker
WriteMethods == { "create_issue", "create_issue_link" }

====
